---- MODULE Spec2Model ----
(***************************************************************************)
(* A model of xdb: the in-memory statement engine (XdbEngine,              *)
(* XdbQueryRunner), the per-database encrypted file (XdbFile), the         *)
(* persistence coordinator (XdbPersistence) and the request handlers that  *)
(* drive them.                                                             *)
(*                                                                         *)
(* SpecSql       : statements executed against one resident database.     *)
(* SpecInsert    : SpecSql restricted to INSERT statements.               *)
(* SpecRoundTrip : statements, then saveDatabase, then a load of the      *)
(*                 written file into an empty engine.                     *)
(* Spec          : overlapping requests (statement, create database,      *)
(*                 delete database) over the shared engine and the files. *)
(* SpecRestart   : Spec with restarts of the server process in between.   *)
(* SpecBackup    : overlapping backup and restore requests over the data  *)
(*                 root, the backup storage and the system registry.      *)
(* SpecCipher    : encrypt of a plaintext, then decrypt of the result.    *)
(* SpecSelect    : INSERT and SELECT statements against one database.     *)
(* SpecCreate    : CREATE TABLE, then INSERT statements into the table.   *)
(***************************************************************************)
EXTENDS Integers, Sequences, FiniteSets, TLC

VARIABLES
    tables,     \* Database.tables of the resident database: name -> Table
    result,     \* outcome of the last statement executed by the engine
    phase,      \* SpecRoundTrip: "open", "saved" or "loaded"
    savedFile,  \* SpecRoundTrip: the database file, << >> when absent
    loaded,     \* SpecRoundTrip: Database.tables of the engine that loaded the file
    databases,  \* XdbEngine.databases: name -> [present, rows]
    disk,       \* <name>.xdb per database: << >> when absent, else <<EncryptedData>>
    tmp,        \* <name>.xdb.tmp per database, likewise
    files,      \* XdbPersistence.files: name -> XdbFile instance, 0 when no entry
    wip,        \* the XdbFile instances whose writeInProgress is true
    req,        \* the requests: position, kind, database, locals, response
    dataRoot,   \* SpecBackup: the .xdb files of the data root, << >> when absent
    coreFile,   \* SpecBackup: system.xdbCore, << >> when absent
    backupStorage, \* SpecBackup: the archives in .backups
    job,        \* SpecBackup: the backup and restore requests
    cipher,     \* SpecCipher: a plaintext, its EncryptedData and what decrypt returned
    selected,   \* SpecSelect: the last statement when it was a SELECT, and QueryResult.rows
    created,    \* SpecCreate: the CREATE TABLE statement each table was created by
    deleted,    \* history: the databases a DELETE request removed, until createDatabase
    restored    \* history: per database, the acknowledged rows resident when a restore copied its file

sqlVars == <<tables, result>>
rtVars == <<phase, savedFile, loaded>>
ioVars == <<databases, disk, tmp, files, wip, req>>
bkVars == <<dataRoot, coreFile, backupStorage, job>>
cxVars == <<cipher>>
selVars == <<selected, created, deleted, restored>>
vars == <<tables, result, phase, savedFile, loaded, databases, disk, tmp, files, wip, req,
          dataRoot, coreFile, backupStorage, job, cipher, selected, created, deleted, restored>>

----------------------------------------------------------------------------
(* Bounds *)

MaxRows == 2        \* rows a table may hold before INSERT is no longer offered
NumRequests == 3    \* requests served in one behaviour of Spec
NumSalts == 1       \* distinct salts randomBytes may draw
NumNonces == 1      \* distinct nonces randomBytes may draw

NumJobs == 3        \* backup and restore requests served in one behaviour of SpecBackup
MaxBackups == 2     \* the registry's maxBackups (MAX_BACKUPS) in SpecBackup
MaxInFlight == 2    \* requests handled at the same time in SpecBackup

Reqs == 1..NumRequests
Jobs == 1..NumJobs
Salts == 1..NumSalts
Nonces == 1..NumNonces
DbNames == {"A", "B"}

----------------------------------------------------------------------------
(* Row values: string | number | boolean | null, plus the absent key       *)
(* (undefined) and the number NaN that Number()/parseFloat() produce.      *)

Null      == [k |-> "null",  n |-> 0, s |-> ""]
Undefined == [k |-> "undef", n |-> 0, s |-> ""]
NaN       == [k |-> "nan",   n |-> 0, s |-> ""]
Num(i)    == [k |-> "num",   n |-> i, s |-> ""]
Str(t)    == [k |-> "str",   n |-> 0, s |-> t]
Bool(b)   == [k |-> "bool",  n |-> IF b THEN 1 ELSE 0, s |-> ""]

\* a === b
StrictEq(a, b) == a = b /\ a.k # "nan"

\* Number(s) for a string s
StringToNumber(t) ==
    CASE t = "0" -> Num(0)
      [] t = "1" -> Num(1)
      [] t = "2" -> Num(2)
      [] t = ""  -> Num(0)
      [] OTHER   -> NaN

\* parseFloat(s) for a string s
ParseFloat(t) ==
    CASE t = "0" -> Num(0)
      [] t = "1" -> Num(1)
      [] t = "2" -> Num(2)
      [] OTHER   -> NaN

\* String(n) for a number n
NumberToString(i) ==
    CASE i = 0 -> "0"
      [] i = 1 -> "1"
      [] i = 2 -> "2"
      [] OTHER -> "3"

\* String(v)
ToStringJs(v) ==
    CASE v.k = "str"   -> v.s
      [] v.k = "num"   -> NumberToString(v.n)
      [] v.k = "bool"  -> IF v.n = 1 THEN "true" ELSE "false"
      [] v.k = "nan"   -> "NaN"
      [] v.k = "null"  -> "null"
      [] OTHER         -> "undefined"

\* Number(v)
ToNumberJs(v) ==
    CASE v.k = "num"   -> v
      [] v.k = "bool"  -> Num(v.n)
      [] v.k = "str"   -> StringToNumber(v.s)
      [] v.k = "null"  -> Num(0)
      [] OTHER         -> NaN

coerceValue(value, type) ==
    IF value = Null THEN Null
    ELSE CASE type = "INTEGER" -> ToNumberJs(value)
           [] type = "REAL"    -> ParseFloat(ToStringJs(value))
           [] type = "TEXT"    -> Str(ToStringJs(value))
           [] OTHER            -> value

----------------------------------------------------------------------------
(* Schema *)

Column(name, type, pk, nn) ==
    [name |-> name, type |-> type, primaryKey |-> pk, notNull |-> nn]

\* CREATE TABLE users (id INTEGER PRIMARY KEY, name TEXT NOT NULL)
UsersColumns ==
    << Column("id", "INTEGER", TRUE, FALSE), Column("name", "TEXT", FALSE, TRUE) >>

\* CREATE TABLE users (id INTEGER PRIMARY KEY, name TEXT PRIMARY KEY)
PairColumns ==
    << Column("id", "INTEGER", TRUE, FALSE), Column("name", "TEXT", TRUE, FALSE) >>

Schemas == {UsersColumns, PairColumns}

ColumnNames(columns) == {columns[i].name : i \in DOMAIN columns}

\* table.columns.find((c) => c.name === colName), for a name the table has
FindColumn(columns, colName) ==
    LET i == CHOOSE j \in DOMAIN columns :
                /\ columns[j].name = colName
                /\ \A h \in DOMAIN columns : columns[h].name = colName => j <= h
    IN columns[i]

\* table.columns.filter((col) => col.primaryKey), as the set of their names
PrimaryKeyColumns(columns) ==
    {columns[i].name : i \in {j \in DOMAIN columns : columns[j].primaryKey}}

EmptyRow(columns) == [c \in ColumnNames(columns) |-> Undefined]

\* row[name]: undefined when the row has no such key
Get(row, name) == IF name \in DOMAIN row THEN row[name] ELSE Undefined

----------------------------------------------------------------------------
(* WHERE evaluation.  A clause is a sequence of OR-branches, each a        *)
(* sequence of AND-conditions; <<>> stands for a statement without WHERE.  *)
(* A condition in which evaluateCondition finds no operator (or no left    *)
(* side) has valid = FALSE.                                                *)

NoWhere == << >>

Cond(left, op, right) == [valid |-> TRUE, left |-> left, op |-> op, right |-> right]
BadCond == [valid |-> FALSE, left |-> "", op |-> "", right |-> Null]

StringOrder == << "", "0", "1", "2", "3", "NULL", "NaN", "abc", "false", "null", "true", "undefined" >>
StrRank(t) == CHOOSE i \in DOMAIN StringOrder : StringOrder[i] = t

\* the JavaScript relational comparison of a and b: "lt", "eq", "gt", or
\* "none" when one side converts to NaN
JsCompare(a, b) ==
    IF a.k = "str" /\ b.k = "str"
    THEN IF StrRank(a.s) < StrRank(b.s) THEN "lt"
         ELSE IF StrRank(a.s) > StrRank(b.s) THEN "gt" ELSE "eq"
    ELSE LET x == ToNumberJs(a)
             y == ToNumberJs(b)
         IN IF x.k = "nan" \/ y.k = "nan" THEN "none"
            ELSE IF x.n < y.n THEN "lt"
            ELSE IF x.n > y.n THEN "gt" ELSE "eq"

\* "T", "F", or "E" when the condition throws
evaluateCondition(row, cond) ==
    IF ~cond.valid THEN "E"
    ELSE LET leftValue  == Get(row, cond.left)
             rightValue == cond.right
             c          == JsCompare(leftValue, rightValue)
             nn         == leftValue # Null /\ rightValue # Null
             b == CASE cond.op = "="  -> StrictEq(leftValue, rightValue)
                    [] cond.op = ">"  -> nn /\ c = "gt"
                    [] cond.op = "<"  -> nn /\ c = "lt"
                    [] cond.op = ">=" -> nn /\ c \in {"gt", "eq"}
                    [] cond.op = "<=" -> nn /\ c \in {"lt", "eq"}
                    [] cond.op \in {"!=", "<>"} -> ~StrictEq(leftValue, rightValue)
                    [] cond.op = "IS" -> IF rightValue = Str("NULL")
                                         THEN leftValue = Null
                                         ELSE leftValue # Null
                    [] OTHER -> FALSE
         IN IF b THEN "T" ELSE "F"

\* an every() that looks at the first condition of the branch only
EveryCondition_FirstConditionOnly(row, andParts, i) ==
    IF i > Len(andParts) THEN "T" ELSE evaluateCondition(row, andParts[1])

RECURSIVE EveryCondition(_, _, _)
\* andParts.every(...) from index i on, left to right, stopping at the first
\* false condition or the first throw
EveryCondition(row, andParts, i) ==
    IF i > Len(andParts) THEN "T"
    ELSE LET r == evaluateCondition(row, andParts[i])
         IN IF r = "T" THEN EveryCondition(row, andParts, i + 1) ELSE r

RECURSIVE SomeBranch(_, _, _)
\* orParts.some(...) from index i on, stopping at the first true branch or
\* the first throw
SomeBranch(row, orParts, i) ==
    IF i > Len(orParts) THEN "F"
    ELSE LET r == EveryCondition(row, orParts[i], 1)
         IN IF r = "F" THEN SomeBranch(row, orParts, i + 1) ELSE r

evaluateWhere(row, whereClause) == SomeBranch(row, whereClause, 1)

----------------------------------------------------------------------------
(* Statements.  A statement is given in parsed form; wellFormed = FALSE    *)
(* stands for a text the statement's regular expression does not match.   *)

Outcome(op, status, n) == [op |-> op, status |-> status, rowsAffected |-> n]

RECURSIVE BuildRow(_, _, _, _, _)
\* the loop of executeInsert over columnNames: the row built, or "E" in
\* status when a column name is not in the table
BuildRow(columns, columnNames, values, i, row) ==
    IF i > Len(columnNames) THEN [status |-> "ok", row |-> row]
    ELSE IF columnNames[i] \notin ColumnNames(columns)
         THEN [status |-> "no_column", row |-> row]
         ELSE BuildRow(columns, columnNames, values, i + 1,
                       [row EXCEPT ![columnNames[i]] =
                           coerceValue(values[i], FindColumn(columns, columnNames[i]).type)])

\* a validatePrimaryKeyConstraint whose scan starts at the second row
validatePrimaryKeyConstraint_SkipsFirstRow(table, newRow) ==
    LET primaryKeyColumns == PrimaryKeyColumns(table.columns)
    IN /\ primaryKeyColumns # {}
       /\ \E i \in DOMAIN table.data \ {1} :
             \A pk \in primaryKeyColumns :
                StrictEq(Get(table.data[i], pk), Get(newRow, pk))

\* TRUE when validatePrimaryKeyConstraint throws for newRow
validatePrimaryKeyConstraint(table, newRow) ==
    LET primaryKeyColumns == PrimaryKeyColumns(table.columns)
    IN /\ primaryKeyColumns # {}
       /\ \E i \in DOMAIN table.data :
             \A pk \in primaryKeyColumns :
                StrictEq(Get(table.data[i], pk), Get(newRow, pk))

\* executeInsert: the tables after the statement and its outcome
executeInsert(tbls, stmt) ==
    IF ~stmt.wellFormed THEN [tables |-> tbls, out |-> Outcome("INSERT", "syntax", 0)]
    ELSE IF stmt.table \notin DOMAIN tbls
    THEN [tables |-> tbls, out |-> Outcome("INSERT", "no_table", 0)]
    ELSE IF Len(stmt.columnNames) # Len(stmt.values)
    THEN [tables |-> tbls, out |-> Outcome("INSERT", "count_mismatch", 0)]
    ELSE LET table == tbls[stmt.table]
             built == BuildRow(table.columns, stmt.columnNames, stmt.values, 1,
                               EmptyRow(table.columns))
         IN IF built.status # "ok"
            THEN [tables |-> tbls, out |-> Outcome("INSERT", built.status, 0)]
            ELSE IF validatePrimaryKeyConstraint(table, built.row)
            THEN [tables |-> tbls, out |-> Outcome("INSERT", "pk_violation", 0)]
            ELSE [tables |-> [tbls EXCEPT ![stmt.table].data = Append(@, built.row)],
                  out |-> Outcome("INSERT", "ok", 1)]

RECURSIVE ApplyAssignments(_, _, _, _)
\* the inner loop of executeUpdate: assignments to columns the table has
\* are applied in order, the others are skipped
ApplyAssignments(columns, row, setAssignments, i) ==
    IF i > Len(setAssignments) THEN row
    ELSE LET a == setAssignments[i]
         IN ApplyAssignments(columns,
                IF a.column \in ColumnNames(columns)
                THEN [row EXCEPT ![a.column] =
                         coerceValue(a.value, FindColumn(columns, a.column).type)]
                ELSE row,
                setAssignments, i + 1)

RECURSIVE UpdateLoop(_, _, _, _, _, _)
\* the loop of executeUpdate over the rows, in place, from row i on
UpdateLoop(columns, data, setAssignments, whereClause, i, rowsAffected) ==
    IF i > Len(data) THEN [data |-> data, status |-> "ok", rowsAffected |-> rowsAffected]
    ELSE LET matchesWhere == IF whereClause = NoWhere THEN "T"
                             ELSE evaluateWhere(data[i], whereClause)
         IN IF matchesWhere = "E"
            THEN [data |-> data, status |-> "where_error", rowsAffected |-> rowsAffected]
            ELSE IF matchesWhere = "T"
            THEN UpdateLoop(columns,
                            [data EXCEPT ![i] =
                                ApplyAssignments(columns, data[i], setAssignments, 1)],
                            setAssignments, whereClause, i + 1, rowsAffected + 1)
            ELSE UpdateLoop(columns, data, setAssignments, whereClause, i + 1, rowsAffected)

\* an executeUpdate that counts one per assignment made
executeUpdate_CountsAssignments(tbls, stmt) ==
    IF ~stmt.wellFormed THEN [tables |-> tbls, out |-> Outcome("UPDATE", "syntax", 0)]
    ELSE IF stmt.table \notin DOMAIN tbls
    THEN [tables |-> tbls, out |-> Outcome("UPDATE", "no_table", 0)]
    ELSE LET table == tbls[stmt.table]
             r == UpdateLoop(table.columns, table.data, stmt.setAssignments,
                             stmt.whereClause, 1, 0)
         IN [tables |-> [tbls EXCEPT ![stmt.table].data = r.data],
             out |-> Outcome("UPDATE", r.status,
                             IF r.status = "ok"
                             THEN r.rowsAffected * Len(stmt.setAssignments) ELSE 0)]

executeUpdate(tbls, stmt) ==
    IF ~stmt.wellFormed THEN [tables |-> tbls, out |-> Outcome("UPDATE", "syntax", 0)]
    ELSE IF stmt.table \notin DOMAIN tbls
    THEN [tables |-> tbls, out |-> Outcome("UPDATE", "no_table", 0)]
    ELSE LET table == tbls[stmt.table]
             r == UpdateLoop(table.columns, table.data, stmt.setAssignments,
                             stmt.whereClause, 1, 0)
         IN [tables |-> [tbls EXCEPT ![stmt.table].data = r.data],
             out |-> Outcome("UPDATE", r.status,
                             IF r.status = "ok" THEN r.rowsAffected ELSE 0)]

\* an applyWhere that keeps the matching rows whatever invert is
applyWhere_IgnoresInvert(rows, whereClause, invert) ==
    SelectSeq(rows, LAMBDA row : evaluateWhere(row, whereClause) = "T")

\* applyWhere(rows, whereClause, invert): the rows kept
applyWhere(rows, whereClause, invert) ==
    SelectSeq(rows, LAMBDA row : (evaluateWhere(row, whereClause) = "T") # invert)

\* TRUE when the filter of applyWhere throws on some row
WhereThrows(rows, whereClause) ==
    \E i \in DOMAIN rows : evaluateWhere(rows[i], whereClause) = "E"

executeDelete(tbls, stmt) ==
    IF ~stmt.wellFormed THEN [tables |-> tbls, out |-> Outcome("DELETE", "syntax", 0)]
    ELSE IF stmt.table \notin DOMAIN tbls
    THEN [tables |-> tbls, out |-> Outcome("DELETE", "no_table", 0)]
    ELSE LET table == tbls[stmt.table]
             oldLength == Len(table.data)
         IN IF stmt.whereClause # NoWhere /\ WhereThrows(table.data, stmt.whereClause)
            THEN [tables |-> tbls, out |-> Outcome("DELETE", "where_error", 0)]
            ELSE LET kept == IF stmt.whereClause # NoWhere
                             THEN applyWhere(table.data, stmt.whereClause, TRUE)
                             ELSE << >>
                 IN [tables |-> [tbls EXCEPT ![stmt.table].data = kept],
                     out |-> Outcome("DELETE", "ok", oldLength - Len(kept))]

----------------------------------------------------------------------------
(* Inputs of SpecSql *)

Literals == {Null, Num(1), Num(2), Str("abc")}

TextLiterals == {Null, Str("abc")}

InsertStmt(w, t, cs, vs) ==
    [wellFormed |-> w, table |-> t, columnNames |-> cs, values |-> vs]

InsertStmts ==
    {InsertStmt(TRUE, "users", <<"id">>, <<v>>) : v \in Literals}
    \cup {InsertStmt(TRUE, "users", <<"name">>, <<v>>) : v \in TextLiterals}
    \cup {InsertStmt(TRUE, "users", <<"id", "name">>, <<v, w>>) :
             v \in Literals, w \in TextLiterals}
    \cup { InsertStmt(TRUE, "users", <<"zz">>, <<Num(1)>>),
           InsertStmt(TRUE, "users", <<"id", "zz">>, <<Num(2), Num(1)>>),
           InsertStmt(TRUE, "users", <<"id", "name">>, <<Num(2)>>),
           InsertStmt(TRUE, "ghost", <<"id">>, <<Num(2)>>),
           InsertStmt(FALSE, "users", <<"id">>, <<Num(2)>>) }

Assign(c, v) == [column |-> c, value |-> v]

AssignmentLists ==
    {<<Assign("id", v)>> : v \in Literals}
    \cup {<<Assign("name", v)>> : v \in TextLiterals}
    \cup { <<Assign("zz", Num(1))>>,
           <<Assign("zz", Num(1)), Assign("name", Str("abc"))>>,
           <<Assign("id", Num(2)), Assign("name", Null)>> }

WhereClauses ==
    { NoWhere,
      << <<Cond("id", "=", Num(1))>> >>,
      << <<Cond("id", ">", Num(1))>> >>,
      << <<BadCond>> >>,
      << <<Cond("id", "=", Num(1))>>, <<BadCond>> >>,
      << <<Cond("id", "=", Num(1))>>, <<Cond("name", "=", Str("abc"))>> >>,
      << <<Cond("id", ">", Num(1)), Cond("name", "=", Str("abc"))>> >> }

UpdateStmt(w, t, as, wh) ==
    [wellFormed |-> w, table |-> t, setAssignments |-> as, whereClause |-> wh]

UpdateStmts ==
    {UpdateStmt(TRUE, "users", as, wh) : as \in AssignmentLists, wh \in WhereClauses}
    \cup { UpdateStmt(TRUE, "ghost", <<Assign("id", Num(1))>>, NoWhere),
           UpdateStmt(FALSE, "users", <<Assign("id", Num(1))>>, NoWhere) }

DeleteStmt(w, t, wh) == [wellFormed |-> w, table |-> t, whereClause |-> wh]

DeleteStmts ==
    {DeleteStmt(TRUE, "users", wh) : wh \in WhereClauses}
    \cup { DeleteStmt(TRUE, "ghost", NoWhere), DeleteStmt(FALSE, "users", NoWhere) }

----------------------------------------------------------------------------
(* SELECT.  The operand of a condition is the text to the right of the     *)
(* operator; parseValue turns it into the value the row is compared with.  *)

\* parseValue(value), for the operand texts the statements use
parseValue(value) ==
    CASE value \in {"NULL", "null"} -> Null
      [] value = "TRUE"             -> Bool(TRUE)
      [] value = "FALSE"            -> Bool(FALSE)
      [] value = "'abc'"            -> Str("abc")
      [] value = "'1'"              -> Str("1")
      [] value \in {"0", "1", "2"}  -> StringToNumber(value)
      [] OTHER                      -> Str(value)

\* the condition "left op rightSide" as evaluateCondition decomposes it
ParsedCond(left, op, rightSide) == Cond(left, op, parseValue(rightSide))

\* one part of an ORDER BY clause: "column" or "column ASC" or "column DESC"
OrderPart(column, isDesc) == [column |-> column, isDesc |-> isDesc]

RECURSIVE orderCompare(_, _, _, _)
\* the comparator applyOrderBy hands to sort, from part i on: -1, 0 or 1
orderCompare(a, b, parts, i) ==
    IF i > Len(parts) THEN 0
    ELSE LET aVal == Get(a, parts[i].column)
             bVal == Get(b, parts[i].column)
             both == aVal # Null /\ bVal # Null
         IN IF both /\ JsCompare(aVal, bVal) = "lt"
            THEN (IF parts[i].isDesc THEN 1 ELSE -1)
            ELSE IF both /\ JsCompare(aVal, bVal) = "gt"
            THEN (IF parts[i].isDesc THEN -1 ELSE 1)
            ELSE orderCompare(a, b, parts, i + 1)

(* Array.prototype.sort of the runtime (V8), for an array shorter than the *)
(* minimum run length: CountAndMakeRun finds the run the array starts      *)
(* with, reversing it when it descends, and BinaryInsertionSort inserts    *)
(* the elements after the run.                                             *)

RECURSIVE RunLength(_, _, _, _)
\* the loop of CountAndMakeRun: the length of the run, idx being the next
\* element to look at
RunLength(rows, parts, isDescending, idx) ==
    IF idx > Len(rows) THEN idx - 1
    ELSE LET order == orderCompare(rows[idx], rows[idx - 1], parts, 1)
         IN IF (isDescending /\ order >= 0) \/ (~isDescending /\ order < 0)
            THEN idx - 1
            ELSE RunLength(rows, parts, isDescending, idx + 1)

CountAndMakeRun(rows, parts) ==
    LET isDescending == orderCompare(rows[2], rows[1], parts, 1) < 0
        runLength    == RunLength(rows, parts, isDescending, 3)
    IN [rows |-> IF isDescending
                 THEN [i \in DOMAIN rows |->
                          IF i <= runLength THEN rows[runLength + 1 - i] ELSE rows[i]]
                 ELSE rows,
        runLength |-> runLength]

RECURSIVE InsertionPoint(_, _, _, _, _)
\* the binary search of BinaryInsertionSort in rows[left .. right - 1]
InsertionPoint(rows, parts, pivot, left, right) ==
    IF left >= right THEN left
    ELSE LET mid == left + ((right - left) \div 2)
         IN IF orderCompare(pivot, rows[mid], parts, 1) < 0
            THEN InsertionPoint(rows, parts, pivot, left, mid)
            ELSE InsertionPoint(rows, parts, pivot, mid + 1, right)

RECURSIVE BinaryInsertionSort(_, _, _)
BinaryInsertionSort(rows, parts, start) ==
    IF start > Len(rows) THEN rows
    ELSE LET pivot == rows[start]
             left  == InsertionPoint(rows, parts, pivot, 1, start)
         IN BinaryInsertionSort(
                [p \in DOMAIN rows |->
                    IF p < left \/ p > start THEN rows[p]
                    ELSE IF p = left THEN pivot ELSE rows[p - 1]],
                parts, start + 1)

\* applyOrderBy(rows, orderByClause): rows.sort(comparator)
applyOrderBy(rows, parts) ==
    IF Len(rows) < 2 THEN rows
    ELSE LET run == CountAndMakeRun(rows, parts)
         IN BinaryInsertionSort(run.rows, parts, run.runLength + 1)

Star == <<"*">>     \* the select clause '*'
NoOrderBy == << >>  \* a statement without ORDER BY
NoLimit == -1       \* a statement without LIMIT

\* if (orderByClause) rows = this.applyOrderBy(rows, orderByClause)
Ordered(rows, orderByClause) ==
    IF orderByClause # NoOrderBy THEN applyOrderBy(rows, orderByClause) ELSE rows

\* if (limitClause) rows = rows.slice(0, parseInt(limitClause, 10))
Limited(rows, limitClause) ==
    IF limitClause # NoLimit /\ limitClause < Len(rows)
    THEN SubSeq(rows, 1, limitClause)
    ELSE rows

\* the projection of executeSelect: the requested columns the row has
Project(row, selectedColumns) ==
    [c \in {selectedColumns[i] : i \in {j \in DOMAIN selectedColumns :
                                          Get(row, selectedColumns[j]) # Undefined}}
        |-> row[c]]

Projected(rows, selectClause) ==
    IF selectClause = Star THEN rows
    ELSE [i \in DOMAIN rows |-> Project(rows[i], selectClause)]

\* executeSelect: the outcome and the rows returned
executeSelect(tbls, stmt) ==
    IF ~stmt.wellFormed THEN [status |-> "syntax", rows |-> << >>]
    ELSE IF stmt.table \notin DOMAIN tbls THEN [status |-> "no_table", rows |-> << >>]
    ELSE IF stmt.whereClause = NoWhere
    THEN [status |-> "ok",
          rows |-> Projected(Limited(Ordered(tbls[stmt.table].data, stmt.orderByClause),
                                     stmt.limitClause),
                             stmt.selectClause)]
    ELSE IF WhereThrows(tbls[stmt.table].data, stmt.whereClause)
    THEN [status |-> "where_error", rows |-> << >>]
    ELSE [status |-> "ok",
          rows |-> Projected(Limited(Ordered(applyWhere(tbls[stmt.table].data,
                                                        stmt.whereClause, FALSE),
                                             stmt.orderByClause),
                                     stmt.limitClause),
                             stmt.selectClause)]

----------------------------------------------------------------------------
(* CREATE TABLE.  A statement is the table name and the definitions        *)
(* between the outer parentheses: column definitions and table-level       *)
(* PRIMARY KEY (c1, ..., cn) clauses.  parseCreateTableStatement splits    *)
(* the text of the definitions on every comma.                             *)

ColumnDef(name, type, modifiers) ==
    [kind |-> "column", name |-> name, type |-> type, modifiers |-> modifiers]

PrimaryKeyClause(columns) == [kind |-> "primaryKey", columns |-> columns]

\* the parts columnDefs.split(',') makes of one definition: a clause
\* PRIMARY KEY (a, b) falls apart into "PRIMARY KEY (a" and "b)"
PartsOf(def) ==
    IF def.kind = "column" THEN <<def>>
    ELSE IF Len(def.columns) = 1
    THEN << [kind |-> "primaryKey", closed |-> TRUE, name |-> def.columns[1]] >>
    ELSE << [kind |-> "primaryKey", closed |-> FALSE, name |-> def.columns[1]] >>
         \o [i \in 1..(Len(def.columns) - 1) |->
                [kind |-> "fragment", name |-> def.columns[i + 1]]]

RECURSIVE SplitOnCommas(_, _)
\* columnDefs.split(',').map((p) => p.trim()), from definition i on
SplitOnCommas(defs, i) ==
    IF i > Len(defs) THEN << >>
    ELSE PartsOf(defs[i]) \o SplitOnCommas(defs, i + 1)

\* a column pushed by the loop of parseCreateTableStatement
ParsedColumn(part) ==
    Column(part.name, part.type,
           "PRIMARY KEY" \in part.modifiers, "NOT NULL" \in part.modifiers)

RECURSIVE ParseParts(_, _, _, _)
\* the loop of parseCreateTableStatement over the parts, from part i on;
\* primaryKey is << >> while undefined, else <<name>>
ParseParts(parts, i, columns, primaryKey) ==
    IF i > Len(parts) THEN [columns |-> columns, primaryKey |-> primaryKey]
    ELSE IF parts[i].kind = "primaryKey"
    THEN ParseParts(parts, i + 1, columns,
                    IF parts[i].closed THEN <<parts[i].name>> ELSE primaryKey)
    ELSE IF parts[i].kind = "fragment"
    THEN ParseParts(parts, i + 1, columns, primaryKey)
    ELSE ParseParts(parts, i + 1, Append(columns, ParsedColumn(parts[i])),
                    IF "PRIMARY KEY" \in parts[i].modifiers /\ primaryKey = << >>
                    THEN <<parts[i].name>> ELSE primaryKey)

parseCreateTableStatement(stmt) ==
    ParseParts(SplitOnCommas(stmt.defs, 1), 1, << >>, << >>)

\* XdbEngine.createTable: the tables after the statement and its outcome
createTable(tbls, stmt) ==
    IF ~stmt.wellFormed THEN [tables |-> tbls, out |-> Outcome("CREATE", "syntax", 0)]
    ELSE IF stmt.tableName \in DOMAIN tbls
    THEN [tables |-> tbls, out |-> Outcome("CREATE", "table_exists", 0)]
    ELSE [tables |-> [t \in DOMAIN tbls \cup {stmt.tableName} |->
                        IF t = stmt.tableName
                        THEN [columns    |-> parseCreateTableStatement(stmt).columns,
                              primaryKey |-> parseCreateTableStatement(stmt).primaryKey,
                              data       |-> << >>]
                        ELSE tbls[t]],
          out |-> Outcome("CREATE", "ok", 0)]

----------------------------------------------------------------------------
(* Cipher module, symbolically: a key is the pair (secret, salt); the      *)
(* ciphertext and the tag are bound to the key, the nonce and the          *)
(* plaintext.                                                              *)

EncryptionKey == "k1"

deriveKey(secret, salt) == <<secret, salt>>

encrypt(plaintext, secret, salt, nonce) ==
    [ciphertext |-> [key |-> deriveKey(secret, salt), nonce |-> nonce, text |-> plaintext],
     nonce      |-> nonce,
     tag        |-> <<deriveKey(secret, salt), nonce, plaintext>>,
     salt       |-> salt]

\* TRUE when decipher.final() verifies the tag
TagVerifies(encryptedData, secret) ==
    LET key == deriveKey(secret, encryptedData.salt)
    IN /\ encryptedData.ciphertext.key = key
       /\ encryptedData.ciphertext.nonce = encryptedData.nonce
       /\ encryptedData.tag = <<key, encryptedData.nonce, encryptedData.ciphertext.text>>

\* the plaintext, for data whose tag verifies
decrypt(encryptedData, secret) == encryptedData.ciphertext.text

----------------------------------------------------------------------------
(* Serialized form of table rows: JSON.stringify writes NaN as null and    *)
(* leaves out keys that have no value; JSON.parse reads the text back.     *)

JsonValue(v) == IF v.k = "nan" THEN Null ELSE v

\* exportToJson, the tables of the resident database
exportTablesToJson(tbls) ==
    [t \in DOMAIN tbls |->
        [columns |-> tbls[t].columns,
         data    |-> [i \in DOMAIN tbls[t].data |->
                        [c \in DOMAIN tbls[t].data[i] |-> JsonValue(tbls[t].data[i][c])]]]]

\* loadFromJson into an engine that holds nothing
loadTablesFromJson(json) == json

----------------------------------------------------------------------------
(* SpecSql: executeQuery on the resident database *)

NoOutcome == Outcome("NONE", "ok", 0)

EmptyDoc == [d \in DbNames |-> [present |-> FALSE, rows |-> {}]]

NoRequest ==
    [pc |-> "idle", kind |-> "NONE", db |-> "A", inst |-> 0,
     json |-> EmptyDoc, data |-> << >>, outcome |-> "none"]

\* the values the variables of the other specifications keep in SpecSql
RoundTripIdle == phase = "open" /\ savedFile = << >> /\ loaded = << >>

IoIdle ==
    /\ databases = EmptyDoc
    /\ disk = [d \in DbNames |-> << >>]
    /\ tmp = [d \in DbNames |-> << >>]
    /\ files = [d \in DbNames |-> 0]
    /\ wip = {}
    /\ req = [r \in Reqs |-> NoRequest]

\* the .xdb files a data root may hold, in the order readdir lists them
FileNames == <<"A.xdb", "B.xdb">>

FileNameSet == {FileNames[i] : i \in DOMAIN FileNames}

\* a backup or restore handler that has not been invoked
NoJob ==
    [pc |-> "idle", kind |-> "NONE", backupId |-> 0, overview |-> << >>,
     core |-> << >>, package |-> << >>, filesToRestore |-> << >>, idx |-> 0,
     failures |-> << >>, restoredCount |-> 0, status |-> "none", response |-> "none"]

\* the values the variables of SpecBackup keep in the other specifications
NoCipher == [pc |-> "idle", plaintext |-> << >>, encryptionKey |-> "none",
             encryptedData |-> << >>, decryptionKey |-> "none",
             outcome |-> "none", returned |-> << >>]

CipherIdle == cipher = NoCipher

\* the last statement was no SELECT: its QueryResult has no rows
NoSelection == [stmt |-> << >>, status |-> "none", rows |-> << >>]

NotRestored == [d \in DbNames |-> << >>]

SelectIdle ==
    selected = NoSelection /\ created = << >> /\ deleted = {} /\ restored = NotRestored

BackupIdle ==
    /\ dataRoot = [f \in FileNameSet |-> << >>]
    /\ coreFile = << >>
    /\ backupStorage = {}
    /\ job = [j \in Jobs |-> NoJob]

InitTables ==
    /\ \E columns \in Schemas :
          tables = [t \in {"users"} |-> [columns |-> columns, data |-> << >>]]
    /\ result = NoOutcome

InitSql == InitTables /\ RoundTripIdle /\ IoIdle /\ BackupIdle /\ CipherIdle /\ SelectIdle

Insert ==
    /\ \A t \in DOMAIN tables : Len(tables[t].data) < MaxRows
    /\ \E stmt \in InsertStmts :
          LET r == executeInsert(tables, stmt)
          IN /\ tables' = r.tables
             /\ result' = r.out
             /\ UNCHANGED <<selVars, rtVars, ioVars, bkVars, cxVars>>

Update ==
    \E stmt \in UpdateStmts :
        LET r == executeUpdate(tables, stmt)
        IN /\ tables' = r.tables
           /\ result' = r.out
           /\ UNCHANGED <<selVars, rtVars, ioVars, bkVars, cxVars>>

Delete ==
    \E stmt \in DeleteStmts :
        LET r == executeDelete(tables, stmt)
        IN /\ tables' = r.tables
           /\ result' = r.out
           /\ UNCHANGED <<selVars, rtVars, ioVars, bkVars, cxVars>>

NextSql == Insert \/ Update \/ Delete

SpecSql == InitSql /\ [][NextSql]_vars

NextInsert == Insert

SpecInsert == InitSql /\ [][NextInsert]_vars

----------------------------------------------------------------------------
(* SpecSelect: INSERT and SELECT statements on the resident database.      *)

MaxSelectRows == 3  \* rows a table may hold in SpecSelect

SelectInsertStmts ==
    {InsertStmt(TRUE, "users", <<"id", "name">>, <<v, w>>) :
        v \in {Null, Num(1), Num(2)}, w \in {Null, Str("abc"), Num(1)}}

\* WHERE id > 1 AND name = 'abc' and the like, after the split on OR and AND
SelectWhereClauses ==
    { NoWhere,
      << <<ParsedCond("id", "=", "1")>> >>,
      << <<ParsedCond("id", ">=", "1"), ParsedCond("name", "=", "'abc'")>> >>,
      << <<ParsedCond("name", "=", "'abc'"), ParsedCond("id", ">=", "1")>> >>,
      << <<ParsedCond("id", "=", "2")>>, <<ParsedCond("name", "=", "'1'")>> >>,
      << <<ParsedCond("id", "<", "2"), ParsedCond("name", "!=", "'abc'")>>,
         <<ParsedCond("id", "=", "2")>> >>,
      << <<ParsedCond("name", "IS", "NULL")>> >>,
      << <<ParsedCond("name", "IS", "NOT NULL")>> >>,
      << <<ParsedCond("id", "=", "1"), BadCond>> >>,
      << <<BadCond, ParsedCond("id", "=", "1")>> >> }

OrderByClauses ==
    { NoOrderBy,
      <<OrderPart("id", FALSE)>>,
      <<OrderPart("id", TRUE)>>,
      <<OrderPart("name", FALSE), OrderPart("id", TRUE)>> }

SelectStmt(w, t, sc, wh, ob, lim) ==
    [wellFormed |-> w, table |-> t, selectClause |-> sc, whereClause |-> wh,
     orderByClause |-> ob, limitClause |-> lim]

SelectStmts ==
    {SelectStmt(TRUE, "users", Star, wh, NoOrderBy, NoLimit) : wh \in SelectWhereClauses}
    \cup {SelectStmt(TRUE, "users", Star, NoWhere, ob, NoLimit) : ob \in OrderByClauses}
    \cup { SelectStmt(TRUE, "users", Star, << <<ParsedCond("name", "IS", "NOT NULL")>> >>,
                      <<OrderPart("id", FALSE)>>, NoLimit),
           SelectStmt(TRUE, "users", <<"name", "zz">>, NoWhere, <<OrderPart("id", TRUE)>>, 1),
           SelectStmt(TRUE, "users", Star, NoWhere, NoOrderBy, 0),
           SelectStmt(TRUE, "ghost", Star, NoWhere, NoOrderBy, NoLimit),
           SelectStmt(FALSE, "users", Star, NoWhere, NoOrderBy, NoLimit) }

\* executeQuery with an INSERT statement
SelectInsert ==
    /\ \A t \in DOMAIN tables : Len(tables[t].data) < MaxSelectRows
    /\ \E stmt \in SelectInsertStmts :
          LET r == executeInsert(tables, stmt)
          IN /\ tables' = r.tables
             /\ result' = r.out
             /\ selected' = NoSelection
             /\ UNCHANGED <<created, deleted, restored, rtVars, ioVars, bkVars, cxVars>>

\* executeQuery with a SELECT statement
Select ==
    \E stmt \in SelectStmts :
        LET r == executeSelect(tables, stmt)
        IN /\ selected' = [stmt |-> stmt, status |-> r.status, rows |-> r.rows]
           /\ result' = Outcome("SELECT", r.status, 0)
           /\ UNCHANGED <<tables, created, deleted, restored, rtVars, ioVars, bkVars, cxVars>>

NextSelect == SelectInsert \/ Select

\* CREATE TABLE users (id INTEGER PRIMARY KEY, name TEXT NOT NULL), no rows
InitSelect ==
    /\ tables = [t \in {"users"} |-> [columns |-> UsersColumns, data |-> << >>]]
    /\ result = NoOutcome
    /\ RoundTripIdle /\ IoIdle /\ BackupIdle /\ CipherIdle /\ SelectIdle

SpecSelect == InitSelect /\ [][NextSelect]_vars

----------------------------------------------------------------------------
(* SpecCreate: CREATE TABLE items (...), then INSERT statements.           *)

MaxCreateRows == 2  \* rows a table may hold in SpecCreate

CreateStmt(w, t, defs) == [wellFormed |-> w, tableName |-> t, defs |-> defs]

CreateStmts ==
    { \* CREATE TABLE items (a INTEGER, b INTEGER, PRIMARY KEY (a, b))
      CreateStmt(TRUE, "items", << ColumnDef("a", "INTEGER", {}), ColumnDef("b", "INTEGER", {}),
                                   PrimaryKeyClause(<<"a", "b">>) >>),
      \* CREATE TABLE items (a INTEGER PRIMARY KEY, b INTEGER PRIMARY KEY)
      CreateStmt(TRUE, "items", << ColumnDef("a", "INTEGER", {"PRIMARY KEY"}),
                                   ColumnDef("b", "INTEGER", {"PRIMARY KEY"}) >>),
      \* CREATE TABLE items (a INTEGER NOT NULL, b INTEGER, PRIMARY KEY (a))
      CreateStmt(TRUE, "items", << ColumnDef("a", "INTEGER", {"NOT NULL"}),
                                   ColumnDef("b", "INTEGER", {}),
                                   PrimaryKeyClause(<<"a">>) >>),
      \* CREATE TABLE items (a INTEGER PRIMARY KEY, b INTEGER)
      CreateStmt(TRUE, "items", << ColumnDef("a", "INTEGER", {"PRIMARY KEY"}),
                                   ColumnDef("b", "INTEGER", {}) >>),
      \* a text that is no CREATE TABLE statement
      CreateStmt(FALSE, "items", << >>) }

ItemInsertStmts ==
    {InsertStmt(TRUE, "items", <<"a", "b">>, <<v, w>>) : v, w \in {Num(1), Num(2)}}

InitCreate ==
    /\ tables = << >>
    /\ result = NoOutcome
    /\ RoundTripIdle /\ IoIdle /\ BackupIdle /\ CipherIdle /\ SelectIdle

\* executeQuery with a CREATE TABLE statement
CreateTable ==
    \E stmt \in CreateStmts :
        LET r == createTable(tables, stmt)
        IN /\ tables' = r.tables
           /\ result' = r.out
           /\ created' = IF r.out.status = "ok"
                         THEN [t \in DOMAIN tables' |->
                                  IF t = stmt.tableName THEN stmt ELSE created[t]]
                         ELSE created
           /\ UNCHANGED <<selected, deleted, restored, rtVars, ioVars, bkVars, cxVars>>

\* executeQuery with an INSERT statement
ItemInsert ==
    /\ \A t \in DOMAIN tables : Len(tables[t].data) < MaxCreateRows
    /\ \E stmt \in ItemInsertStmts :
          LET r == executeInsert(tables, stmt)
          IN /\ tables' = r.tables
             /\ result' = r.out
             /\ UNCHANGED <<selVars, rtVars, ioVars, bkVars, cxVars>>

NextCreate == CreateTable \/ ItemInsert

SpecCreate == InitCreate /\ [][NextCreate]_vars

----------------------------------------------------------------------------
(* SpecRoundTrip: statements, then saveDatabase of the resident database,  *)
(* then loadDatabase of the written file by an engine that holds nothing.  *)

StatementRt == phase = "open" /\ NextSql

\* saveDatabase: exportToJson, then XdbFile.write of the text
SaveDatabaseRt ==
    /\ phase = "open"
    /\ \E salt \in Salts, nonce \in Nonces :
          savedFile' = <<encrypt(exportTablesToJson(tables), EncryptionKey, salt, nonce)>>
    /\ phase' = "saved"
    /\ UNCHANGED <<selVars, sqlVars, loaded, ioVars, bkVars, cxVars>>

\* loadDatabase: XdbFile.read, then loadFromJson
LoadDatabaseRt ==
    /\ phase = "saved"
    /\ TagVerifies(savedFile[1], EncryptionKey)
    /\ loaded' = loadTablesFromJson(decrypt(savedFile[1], EncryptionKey))
    /\ phase' = "loaded"
    /\ UNCHANGED <<selVars, sqlVars, savedFile, ioVars, bkVars, cxVars>>

NextRoundTrip == StatementRt \/ SaveDatabaseRt \/ LoadDatabaseRt

SpecRoundTrip == InitSql /\ [][NextRoundTrip]_vars

----------------------------------------------------------------------------
(* Spec: the request handlers over XdbEngine, XdbPersistence and XdbFile.  *)
(* One action is one run of a handler between two I/O suspension points.   *)
(* A database is a set of rows, each named by the request that inserted    *)
(* it; a document (the plaintext of a file) maps every database name to    *)
(* what the file holds for it.                                             *)

MaxDatabaseSize == 2

\* Buffer.byteLength of the serialized form, one unit per database and row
SerializedSize(json) ==
    LET held == {d \in DbNames : json[d].present}
    IN Cardinality(held) + Cardinality(UNION {{<<d, x>> : x \in json[d].rows} : d \in held})

exportToJson(dbs) == dbs

loadFromJson(dbs, json) ==
    [d \in DbNames |-> IF json[d].present THEN json[d] ELSE dbs[d]]

\* a size check that lets one unit too many through
ExceedsLimit_OffByOne(json) == SerializedSize(json) > MaxDatabaseSize + 1

\* the size check of saveDatabase
ExceedsLimit(json) == SerializedSize(json) > MaxDatabaseSize

\* what a write that failed part way leaves in a file
GarbageData ==
    [ciphertext |-> [key |-> <<"", 0>>, nonce |-> 0, text |-> EmptyDoc],
     nonce |-> 0, tag |-> << >>, salt |-> 0]

\* an unlink that removes nothing
Unlink_Keeps(fsys, d) == fsys

\* fs.unlink of the file of database d in the directory fsys
Unlink(fsys, d) == [fsys EXCEPT ![d] = << >>]

\* the identity of a new XdbFile: its writeInProgress is false
NewInstance(fs, w) ==
    CHOOSE i \in 1..(NumRequests + Cardinality(DbNames) + 1) :
        /\ i \notin w \cup {fs[d] : d \in DbNames}
        /\ \A j \in 1..(i - 1) : j \in w \cup {fs[d] : d \in DbNames}

\* getXdbFile: the files map after the call
getXdbFile(fs, w, d) == IF fs[d] # 0 THEN fs ELSE [fs EXCEPT ![d] = NewInstance(fs, w)]

Segment(dbs, fs, w, rq) == [databases |-> dbs, files |-> fs, wip |-> w, rq |-> rq]

\* the handler returns its response
Done(rq, outcome) ==
    [rq EXCEPT !.pc = "done", !.outcome = outcome, !.inst = 0,
               !.json = EmptyDoc, !.data = << >>]

\* a guard of XdbFile.write that resets writeInProgress when it rejects
saveDatabase_RejectClearsFlag(dbs, fs, w, rq) ==
    LET fs2  == getXdbFile(fs, w, rq.db)
        file == fs2[rq.db]
        json == exportToJson(dbs)
    IN IF ExceedsLimit(json) THEN Segment(dbs, fs2, w, Done(rq, "size_limit"))
       ELSE IF file \in w THEN Segment(dbs, fs2, w \ {file}, Done(rq, "write_in_progress"))
       ELSE Segment(dbs, fs2, w \cup {file},
                    [rq EXCEPT !.pc = "encrypting", !.inst = file, !.json = json])

\* saveDatabase up to the first suspension of XdbFile.write
saveDatabase(dbs, fs, w, rq) ==
    LET fs2  == getXdbFile(fs, w, rq.db)
        file == fs2[rq.db]
        json == exportToJson(dbs)
    IN IF ExceedsLimit(json) THEN Segment(dbs, fs2, w, Done(rq, "size_limit"))
       ELSE IF file \in w THEN Segment(dbs, fs2, w, Done(rq, "write_in_progress"))
       ELSE Segment(dbs, fs2, w \cup {file},
                    [rq EXCEPT !.pc = "encrypting", !.inst = file, !.json = json])

\* handleQueryExecution from executeQuery on, for the INSERT of request r
executeAndSave(dbs, fs, w, rq, r) ==
    IF ~dbs[rq.db].present THEN Segment(dbs, fs, w, Done(rq, "no_database"))
    ELSE saveDatabase([dbs EXCEPT ![rq.db].rows = @ \cup {r}], fs, w, rq)

\* the DELETE handler from engine.deleteDatabase on
deleteDatabase(dbs, fs, w, rq) ==
    IF ~dbs[rq.db].present THEN Segment(dbs, fs, w, Done(rq, "no_database"))
    ELSE LET fs2 == getXdbFile(fs, w, rq.db)
         IN Segment([dbs EXCEPT ![rq.db] = [present |-> FALSE, rows |-> {}]], fs2, w,
                    [rq EXCEPT !.pc = "unlinking", !.inst = fs2[rq.db]])

\* what a handler does once the database is resident or its load returned
afterLoad(dbs, fs, w, rq, r) ==
    IF rq.kind = "POST" THEN executeAndSave(dbs, fs, w, rq, r)
    ELSE deleteDatabase(dbs, fs, w, rq)

Kinds == {"POST", "PUT", "DELETE"}

Apply(seg, r) ==
    /\ databases' = seg.databases
    /\ files' = seg.files
    /\ wip' = seg.wip
    /\ req' = [req EXCEPT ![r] = seg.rq]

InitialFile(d) ==
    encrypt([e \in DbNames |-> [present |-> e = d, rows |-> {}]], EncryptionKey, 1, 1)

\* a file of database d whose bytes were altered after it was written
TamperedFile(d) == [InitialFile(d) EXCEPT !.tag = << >>]

\* a file of database d written under another secret
WrongKeyFile(d) ==
    encrypt([e \in DbNames |-> [present |-> e = d, rows |-> {}]], "k2", 1, 1)

\* what the data directory may hold for database d when the server starts
InitialFiles(d) == {<< >>, <<InitialFile(d)>>, <<TamperedFile(d)>>, <<WrongKeyFile(d)>>}

Init ==
    /\ tables = [t \in {"users"} |-> [columns |-> UsersColumns, data |-> << >>]]
    /\ result = NoOutcome
    /\ RoundTripIdle
    /\ databases = EmptyDoc
    /\ disk \in {f \in [DbNames -> UNION {InitialFiles(d) : d \in DbNames}] :
                    \A d \in DbNames : f[d] \in InitialFiles(d)}
    /\ tmp = [d \in DbNames |-> << >>]
    /\ files = [d \in DbNames |-> 0]
    /\ wip = {}
    /\ req = [r \in Reqs |-> NoRequest]
    /\ BackupIdle
    /\ CipherIdle
    /\ SelectIdle

\* a request arrives and its handler runs to its first suspension
Start(r) ==
    /\ req[r].pc = "idle"
    /\ \A q \in Reqs : q < r => req[q].pc # "idle"
    /\ \E kind \in Kinds, d \in DbNames :
          LET rq == [NoRequest EXCEPT !.kind = kind, !.db = d]
          IN IF kind = "PUT" \/ ~databases[d].present
             THEN Apply(Segment(databases, getXdbFile(files, wip, d), wip,
                                [rq EXCEPT !.pc = "exists"]), r)
             ELSE Apply(afterLoad(databases, files, wip, rq, r), r)
    /\ UNCHANGED <<selVars, sqlVars, rtVars, bkVars, cxVars, disk, tmp>>

\* databaseExistsOnDisk returns
ExistsDone(r) ==
    /\ req[r].pc = "exists"
    /\ LET rq == req[r]
           exists == disk[rq.db] # << >>
       IN IF rq.kind = "PUT"
          THEN IF exists \/ databases[rq.db].present
               THEN Apply(Segment(databases, files, wip, Done(rq, "conflict")), r)
               ELSE Apply(saveDatabase([databases EXCEPT ![rq.db] =
                                           [present |-> TRUE, rows |-> {}]],
                                       files, wip, rq), r)
          ELSE IF ~exists
               THEN Apply(Segment(databases, files, wip, Done(rq, "not_found")), r)
               ELSE Apply(Segment(databases, getXdbFile(files, wip, rq.db), wip,
                                  [rq EXCEPT !.pc = "reading"]), r)
    /\ deleted' = IF /\ req[r].kind = "PUT"
                     /\ disk[req[r].db] = << >>
                     /\ ~databases[req[r].db].present
                  THEN deleted \ {req[r].db}
                  ELSE deleted
    /\ UNCHANGED <<selected, created, restored, sqlVars, rtVars, bkVars, cxVars, disk, tmp>>

\* fs.readFile of XdbFile.read returns
ReadDone(r) ==
    /\ req[r].pc = "reading"
    /\ LET rq == req[r]
       IN IF disk[rq.db] = << >>
          THEN Apply(afterLoad(databases, files, wip, rq, r), r)
          ELSE Apply(Segment(databases, files, wip,
                             [rq EXCEPT !.pc = "decrypting", !.data = disk[rq.db]]), r)
    /\ UNCHANGED <<selVars, sqlVars, rtVars, bkVars, cxVars, disk, tmp>>

\* a read whose catch block returns the empty document for every error
DecryptDone_EmptyOnError(r) ==
    /\ req[r].pc = "decrypting"
    /\ LET rq == req[r]
       IN IF ~TagVerifies(rq.data[1], EncryptionKey)
          THEN Apply(afterLoad(databases, files, wip, [rq EXCEPT !.data = << >>], r), r)
          ELSE Apply(afterLoad(loadFromJson(databases, decrypt(rq.data[1], EncryptionKey)),
                               files, wip, [rq EXCEPT !.data = << >>], r), r)
    /\ UNCHANGED <<selVars, sqlVars, rtVars, bkVars, cxVars, disk, tmp>>

\* decrypt of XdbFile.read returns or throws; loadDatabase and the handler go on
DecryptDone(r) ==
    /\ req[r].pc = "decrypting"
    /\ LET rq == req[r]
       IN IF ~TagVerifies(rq.data[1], EncryptionKey)
          THEN Apply(Segment(databases, files, wip, Done(rq, "read_failed")), r)
          ELSE Apply(afterLoad(loadFromJson(databases, decrypt(rq.data[1], EncryptionKey)),
                               files, wip, [rq EXCEPT !.data = << >>], r), r)
    /\ UNCHANGED <<selVars, sqlVars, rtVars, bkVars, cxVars, disk, tmp>>

\* encrypt of XdbFile.write returns
EncryptDone(r) ==
    /\ req[r].pc = "encrypting"
    /\ \E salt \in Salts, nonce \in Nonces :
          req' = [req EXCEPT ![r].pc = "writingTmp",
                             ![r].data = <<encrypt(req[r].json, EncryptionKey, salt, nonce)>>]
    /\ UNCHANGED <<selVars, sqlVars, rtVars, bkVars, cxVars, databases, disk, tmp, files, wip>>

\* encrypt of XdbFile.write throws
EncryptFail(r) ==
    /\ req[r].pc = "encrypting"
    /\ req' = [req EXCEPT ![r].pc = "cleanup"]
    /\ UNCHANGED <<selVars, sqlVars, rtVars, bkVars, cxVars, databases, disk, tmp, files, wip>>

\* fs.writeFile of the temporary file returns
TmpWriteDone(r) ==
    /\ req[r].pc = "writingTmp"
    /\ tmp' = [tmp EXCEPT ![req[r].db] = req[r].data]
    /\ req' = [req EXCEPT ![r].pc = "renaming"]
    /\ UNCHANGED <<selVars, sqlVars, rtVars, bkVars, cxVars, databases, disk, files, wip>>

\* fs.writeFile of the temporary file throws, before or after it truncated it
TmpWriteFail(r) ==
    /\ req[r].pc = "writingTmp"
    /\ \E left \in {tmp[req[r].db], <<GarbageData>>} :
          tmp' = [tmp EXCEPT ![req[r].db] = left]
    /\ req' = [req EXCEPT ![r].pc = "cleanup"]
    /\ UNCHANGED <<selVars, sqlVars, rtVars, bkVars, cxVars, databases, disk, files, wip>>

\* fs.rename returns: the temporary file replaces the target; it throws
\* when the temporary file is no longer there
RenameDone(r) ==
    /\ req[r].pc = "renaming"
    /\ LET d == req[r].db
       IN IF tmp[d] = << >>
          THEN /\ req' = [req EXCEPT ![r].pc = "cleanup"]
               /\ UNCHANGED <<disk, tmp, wip>>
          ELSE /\ disk' = [disk EXCEPT ![d] = tmp[d]]
               /\ tmp' = [tmp EXCEPT ![d] = << >>]
               /\ wip' = wip \ {req[r].inst}
               /\ req' = [req EXCEPT ![r] = Done(req[r], "ok")]
    /\ UNCHANGED <<selVars, sqlVars, rtVars, bkVars, cxVars, databases, files>>

\* fs.rename throws
RenameFail(r) ==
    /\ req[r].pc = "renaming"
    /\ req' = [req EXCEPT ![r].pc = "cleanup"]
    /\ UNCHANGED <<selVars, sqlVars, rtVars, bkVars, cxVars, databases, disk, tmp, files, wip>>

\* the catch and finally blocks of XdbFile.write: unlink of the temporary
\* file, writeInProgress reset, the error rethrown
CleanupDone(r) ==
    /\ req[r].pc = "cleanup"
    /\ tmp' = Unlink(tmp, req[r].db)
    /\ wip' = wip \ {req[r].inst}
    /\ req' = [req EXCEPT ![r] = Done(req[r], "write_failed")]
    /\ UNCHANGED <<selVars, sqlVars, rtVars, bkVars, cxVars, databases, disk, files>>

\* file.delete of persistence.deleteDatabase returns; the map entry is dropped
UnlinkDone(r) ==
    /\ req[r].pc = "unlinking"
    /\ disk' = Unlink(disk, req[r].db)
    /\ files' = [files EXCEPT ![req[r].db] = 0]
    /\ req' = [req EXCEPT ![r] = Done(req[r], "ok")]
    /\ deleted' = deleted \cup {req[r].db}
    /\ restored' = [restored EXCEPT ![req[r].db] = << >>]
    /\ UNCHANGED <<selected, created, sqlVars, rtVars, bkVars, cxVars, databases, tmp, wip>>

Next ==
    \E r \in Reqs :
        \/ Start(r)
        \/ ExistsDone(r)
        \/ ReadDone(r)
        \/ DecryptDone(r)
        \/ EncryptDone(r)
        \/ EncryptFail(r)
        \/ TmpWriteDone(r)
        \/ TmpWriteFail(r)
        \/ RenameDone(r)
        \/ RenameFail(r)
        \/ CleanupDone(r)
        \/ UnlinkDone(r)

Spec == Init /\ [][Next]_vars

\* the steps of XdbFile.write for request r: each awaited operation (encrypt,
\* writeFile, rename, unlink) settles
WriteStep(r) ==
    \/ EncryptDone(r)
    \/ EncryptFail(r)
    \/ TmpWriteDone(r)
    \/ TmpWriteFail(r)
    \/ RenameDone(r)
    \/ RenameFail(r)
    \/ CleanupDone(r)

\* Spec with every awaited operation of a write settling eventually
SpecLive == Spec /\ \A r \in Reqs : WF_vars(WriteStep(r))

\* the server process is restarted while no request is being handled:
\* initializeXdb builds a new, empty XdbEngine and a new XdbPersistence
\* over the same data directory
Restart ==
    /\ \A r \in Reqs : req[r].pc \in {"idle", "done"}
    /\ \E r \in Reqs : req[r].pc = "done"
    /\ databases' = EmptyDoc
    /\ files' = [d \in DbNames |-> 0]
    /\ wip' = {}
    /\ req' = [r \in Reqs |-> NoRequest]
    /\ UNCHANGED <<selVars, sqlVars, rtVars, bkVars, cxVars, disk, tmp>>

NextRestart == Next \/ Restart

SpecRestart == Init /\ [][NextRestart]_vars

\* the copy loop of the restore handler on the live data directory: writeFile
\* puts the archived file of database d, here the one holding d without
\* rows, at d's path; the handler then only logs the file names it finds
RestoreCopy(d) ==
    /\ restored[d] = << >>
    /\ disk' = [disk EXCEPT ![d] = <<InitialFile(d)>>]
    /\ restored' = [restored EXCEPT ![d] =
                        <<{r \in databases[d].rows : req[r].outcome = "ok"}>>]
    /\ UNCHANGED <<selected, created, deleted, sqlVars, rtVars, bkVars, cxVars,
                   databases, tmp, files, wip, req>>

NextRestore == Next \/ \E d \in DbNames : RestoreCopy(d)

SpecRestore == Init /\ [][NextRestore]_vars

----------------------------------------------------------------------------
(* SpecBackup: the backup and restore handlers over the data root, the     *)
(* backup storage and the system registry (system.xdbCore).  A file's      *)
(* content is a number; an archive holds the files it was given and the    *)
(* overview (manifest) listing each file name with its checksum.  A        *)
(* registry file counts as present once the writeFile that creates it has  *)
(* returned.                                                               *)

\* createHash('sha256').update(content).digest('hex')
generateSha256(content) == <<"sha256", content>>

InitialBytes(f) == IF f = "A.xdb" THEN 1 ELSE 2

\* the bytes of a file after some of them were altered
Corrupt(bytes) == bytes + 10

\* what an interrupted writeFile leaves in its destination
TruncatedBytes == << 0 >>

\* the loop over readdir of the backup handler: the overview entries, one
\* per .xdb file present in root
CollectFiles(root) ==
    LET names == SelectSeq(FileNames, LAMBDA f : root[f] # << >>)
    IN [i \in DOMAIN names |->
          [filename |-> names[i], checksum |-> generateSha256(root[names[i]][1])]]

Listed(overview) == {overview[i].filename : i \in DOMAIN overview}

\* serializeBackupOverview: header line, JSON payload, footer line
serializeBackupOverview(data) ==
    [header |-> "XDBINFO_V1", payload |-> data, footer |-> "XDBINFO_END"]

\* deserializeBackupOverview of a content whose header and footer are in place
deserializeBackupOverview(content) == content.payload

\* the overview the restore handler reads from the extracted package
OverviewOf(package) == deserializeBackupOverview(package.overview)

\* an archive step that stores the overview and none of the files
CreateArchive_OverviewOnly(backupId, overview, root) ==
    [backupId |-> backupId, readable |-> TRUE,
     files |-> [f \in FileNameSet |-> << >>],
     overview |-> serializeBackupOverview(overview)]

\* the zip written by the backup handler: the listed files as they are in
\* root when the archive is finalized, and the overview
CreateArchive(backupId, overview, root) ==
    [backupId |-> backupId, readable |-> TRUE,
     files |-> [f \in FileNameSet |-> IF f \in Listed(overview) THEN root[f] ELSE << >>],
     overview |-> serializeBackupOverview(overview)]

\* the registry initializeSystemCore creates
NewCore == [backups |-> << >>, restorations |-> << >>, maxBackups |-> MaxBackups]

\* saveSystemCore: the wrapper written to system.xdbCore
saveSystemCore(core) == [format |-> "xdbCore_encrypted_v1", payload |-> core]

\* loadSystemCore of a wrapper the program wrote
loadSystemCore(wrapper) == wrapper.payload

\* an addBackupToCore that removes the newest record when over the maximum
addBackupToCore_EvictsNewest(core, backupId) ==
    LET pushed == [core EXCEPT !.backups = Append(@, backupId)]
    IN IF Len(pushed.backups) > pushed.maxBackups
       THEN [pushed EXCEPT !.backups = SubSeq(@, 1, Len(@) - 1)]
       ELSE pushed

\* addBackupToCore between its load and its save
addBackupToCore(core, backupId) ==
    LET pushed == [core EXCEPT !.backups = Append(@, backupId)]
    IN IF Len(pushed.backups) > pushed.maxBackups
       THEN [pushed EXCEPT !.backups = Tail(@)]
       ELSE pushed

\* recordRestoration between its load and its save
recordRestoration(core, backupId, status, failureLog) ==
    [core EXCEPT !.restorations =
        Append(@, [backupId |-> backupId, status |-> status, failureLog |-> failureLog])]

Failure(filename, reason) == [filename |-> filename, reason |-> reason]

RECURSIVE Validate_StopsAtFirstFailure(_, _, _, _)
\* a validation loop that returns at the first entry it rejects
Validate_StopsAtFirstFailure(package, i, failures, filesToRestore) ==
    IF i > Len(OverviewOf(package))
    THEN [failures |-> failures, filesToRestore |-> filesToRestore]
    ELSE LET fileInfo  == OverviewOf(package)[i]
             extracted == package.files[fileInfo.filename]
         IN IF extracted = << >>
            THEN [failures |-> Append(failures,
                                      Failure(fileInfo.filename, "File not found in archive")),
                  filesToRestore |-> filesToRestore]
            ELSE IF generateSha256(extracted[1]) # fileInfo.checksum
            THEN [failures |-> Append(failures,
                                      Failure(fileInfo.filename, "Checksum mismatch")),
                  filesToRestore |-> filesToRestore]
            ELSE Validate_StopsAtFirstFailure(package, i + 1, failures,
                                              Append(filesToRestore, fileInfo.filename))

RECURSIVE Validate(_, _, _, _)
\* the loop of the restore handler over overview.files, from entry i on
Validate(package, i, failures, filesToRestore) ==
    IF i > Len(OverviewOf(package))
    THEN [failures |-> failures, filesToRestore |-> filesToRestore]
    ELSE LET fileInfo  == OverviewOf(package)[i]
             extracted == package.files[fileInfo.filename]
         IN IF extracted = << >>
            THEN Validate(package, i + 1,
                          Append(failures, Failure(fileInfo.filename, "File not found in archive")),
                          filesToRestore)
            ELSE IF generateSha256(extracted[1]) # fileInfo.checksum
            THEN Validate(package, i + 1,
                          Append(failures, Failure(fileInfo.filename, "Checksum mismatch")),
                          filesToRestore)
            ELSE Validate(package, i + 1, failures,
                          Append(filesToRestore, fileInfo.filename))

\* the status the restore handler derives from its two lists
restorationStatus(failures, filesToRestore) ==
    IF Len(failures) = 0 THEN "success"
    ELSE IF Len(failures) < Len(filesToRestore) THEN "partial"
    ELSE "failed"

\* the restore handler after its copy loop, up to the first suspension of
\* recordRestoration: loadSystemCore throws when system.xdbCore is absent
AfterCopy(jb, core) ==
    LET status == restorationStatus(jb.failures, jb.filesToRestore)
    IN IF core = << >>
       THEN [jb EXCEPT !.pc = "done", !.status = status, !.response = "error"]
       ELSE [jb EXCEPT !.pc = "recordReading", !.status = status]

ForeignRoot == [f \in FileNameSet |-> <<InitialBytes(f)>>]

\* a package produced by createBackup on another server
ForeignPackage == CreateArchive(0, CollectFiles(ForeignRoot), ForeignRoot)

\* the package p as uploaded: intact, with one file's bytes altered, with
\* one file missing, or with every file's bytes altered
Variants(p) ==
    LET held == {f \in FileNameSet : p.files[f] # << >>}
    IN {p}
       \cup {[p EXCEPT !.files[f] = <<Corrupt(@[1])>>] : f \in held}
       \cup {[p EXCEPT !.files[f] = << >>] : f \in held}
       \cup {[p EXCEPT !.files = [f \in FileNameSet |->
                                    IF f \in held THEN <<Corrupt(p.files[f][1])>> ELSE << >>]]}

\* the uploads a restore request may carry
Uploads(storage) ==
    UNION {Variants(p) : p \in storage \cup {ForeignPackage}}
    \cup {[ForeignPackage EXCEPT !.readable = FALSE]}

InitBackup ==
    /\ tables = [t \in {"users"} |-> [columns |-> UsersColumns, data |-> << >>]]
    /\ result = NoOutcome
    /\ RoundTripIdle
    /\ IoIdle
    /\ CipherIdle
    /\ SelectIdle
    /\ dataRoot \in {root \in [FileNameSet -> {<< >>} \cup {<<InitialBytes(f)>> : f \in FileNameSet}] :
                        \A f \in FileNameSet : root[f] \in {<< >>, <<InitialBytes(f)>>}}
    /\ coreFile = << >>
    /\ backupStorage = {}
    /\ job = [j \in Jobs |-> NoJob]

\* requests are numbered in arrival order; at most MaxInFlight are being
\* handled at a time
JobArrives(j) ==
    /\ job[j].pc = "idle"
    /\ \A i \in Jobs : i < j => job[i].pc # "idle"
    /\ Cardinality({i \in Jobs : job[i].pc \notin {"idle", "done"}}) < MaxInFlight

\* the backup handler up to its checksum pass
BackupCollect(j) ==
    /\ JobArrives(j)
    /\ job' = [job EXCEPT ![j] =
                  [NoJob EXCEPT !.pc = "archiving", !.kind = "BACKUP", !.backupId = j,
                                !.overview = CollectFiles(dataRoot)]]
    /\ UNCHANGED <<selVars, sqlVars, rtVars, ioVars, cxVars, dataRoot, coreFile, backupStorage>>

\* the archive is finalized; initializeSystemCore runs to its suspension
BackupArchive(j) ==
    /\ job[j].pc = "archiving"
    /\ backupStorage' = backupStorage
                           \cup {CreateArchive(job[j].backupId, job[j].overview, dataRoot)}
    /\ job' = [job EXCEPT ![j] =
                  IF coreFile = << >>
                  THEN [@ EXCEPT !.pc = "initWriting", !.core = <<NewCore>>]
                  ELSE [@ EXCEPT !.pc = "initReading"]]
    /\ UNCHANGED <<selVars, sqlVars, rtVars, ioVars, cxVars, dataRoot, coreFile>>

\* writeFile of initializeSystemCore returns; addBackupToCore starts its load
InitWriteDone(j) ==
    /\ job[j].pc = "initWriting"
    /\ coreFile' = <<saveSystemCore(job[j].core[1])>>
    /\ job' = [job EXCEPT ![j].pc = "addReading", ![j].core = << >>]
    /\ UNCHANGED <<selVars, sqlVars, rtVars, ioVars, cxVars, dataRoot, backupStorage>>

\* readFile of initializeSystemCore returns; addBackupToCore starts its load
InitReadDone(j) ==
    /\ job[j].pc = "initReading"
    /\ job' = [job EXCEPT ![j].pc = "addReading"]
    /\ UNCHANGED <<selVars, sqlVars, rtVars, ioVars, cxVars, dataRoot, coreFile, backupStorage>>

\* readFile of addBackupToCore returns: push, shift, start of the save
AddReadDone(j) ==
    /\ job[j].pc = "addReading"
    /\ job' = [job EXCEPT ![j].pc = "addWriting",
                          ![j].core = <<addBackupToCore(loadSystemCore(coreFile[1]),
                                                        job[j].backupId)>>]
    /\ UNCHANGED <<selVars, sqlVars, rtVars, ioVars, cxVars, dataRoot, coreFile, backupStorage>>

\* writeFile of addBackupToCore returns; the handler answers 201
AddWriteDone(j) ==
    /\ job[j].pc = "addWriting"
    /\ coreFile' = <<saveSystemCore(job[j].core[1])>>
    /\ job' = [job EXCEPT ![j].pc = "done", ![j].core = << >>, ![j].response = "created"]
    /\ UNCHANGED <<selVars, sqlVars, rtVars, ioVars, cxVars, dataRoot, backupStorage>>

\* the restore handler: extraction, overview, validation loop
RestoreStart(j) ==
    /\ JobArrives(j)
    /\ \E p \in Uploads(backupStorage) :
          LET v  == Validate(p, 1, << >>, << >>)
              jb == [NoJob EXCEPT !.kind = "RESTORE", !.backupId = p.backupId,
                                  !.package = <<p>>, !.overview = OverviewOf(p),
                                  !.failures = v.failures,
                                  !.filesToRestore = v.filesToRestore, !.idx = 1]
          IN job' = [job EXCEPT ![j] =
                IF ~p.readable
                THEN [NoJob EXCEPT !.pc = "done", !.kind = "RESTORE", !.response = "error"]
                ELSE IF v.filesToRestore = << >> THEN AfterCopy(jb, coreFile)
                ELSE [jb EXCEPT !.pc = "copying"]]
    /\ UNCHANGED <<selVars, sqlVars, rtVars, ioVars, cxVars, dataRoot, coreFile, backupStorage>>

\* the handler after the copy of filesToRestore[idx] ended
NextCopy(jb, core) ==
    IF jb.idx + 1 > Len(jb.filesToRestore)
    THEN AfterCopy([jb EXCEPT !.idx = @ + 1], core)
    ELSE [jb EXCEPT !.idx = @ + 1]

\* writeFile of the copy loop returns
CopyDone(j) ==
    /\ job[j].pc = "copying"
    /\ LET fileName == job[j].filesToRestore[job[j].idx]
       IN /\ dataRoot' = [dataRoot EXCEPT ![fileName] = job[j].package[1].files[fileName]]
          /\ job' = [job EXCEPT ![j] =
                        NextCopy([@ EXCEPT !.restoredCount = @ + 1], coreFile)]
    /\ UNCHANGED <<selVars, sqlVars, rtVars, ioVars, cxVars, coreFile, backupStorage>>

\* readFile or writeFile of the copy loop throws, the destination being
\* left as it was or truncated
CopyFail(j) ==
    /\ job[j].pc = "copying"
    /\ LET fileName == job[j].filesToRestore[job[j].idx]
       IN /\ \E left \in {dataRoot[fileName], TruncatedBytes} :
                dataRoot' = [dataRoot EXCEPT ![fileName] = left]
          /\ job' = [job EXCEPT ![j] =
                        NextCopy([@ EXCEPT !.failures =
                                     Append(@, Failure(fileName, "Failed to restore"))],
                                 coreFile)]
    /\ UNCHANGED <<selVars, sqlVars, rtVars, ioVars, cxVars, coreFile, backupStorage>>

\* readFile of recordRestoration returns: push, start of the save
RecordReadDone(j) ==
    /\ job[j].pc = "recordReading"
    /\ job' = [job EXCEPT ![j].pc = "recordWriting",
                          ![j].core = <<recordRestoration(loadSystemCore(coreFile[1]),
                                                          job[j].backupId, job[j].status,
                                                          job[j].failures)>>]
    /\ UNCHANGED <<selVars, sqlVars, rtVars, ioVars, cxVars, dataRoot, coreFile, backupStorage>>

\* writeFile of recordRestoration returns; the handler answers with the report
RecordWriteDone(j) ==
    /\ job[j].pc = "recordWriting"
    /\ coreFile' = <<saveSystemCore(job[j].core[1])>>
    /\ job' = [job EXCEPT ![j].pc = "done", ![j].core = << >>, ![j].response = "report"]
    /\ UNCHANGED <<selVars, sqlVars, rtVars, ioVars, cxVars, dataRoot, backupStorage>>

\* a database file is deleted from the data root between two requests
DeleteFile(f) ==
    /\ dataRoot[f] # << >>
    /\ \A j \in Jobs : job[j].pc \in {"idle", "done"}
    /\ dataRoot' = [dataRoot EXCEPT ![f] = << >>]
    /\ UNCHANGED <<selVars, sqlVars, rtVars, ioVars, cxVars, coreFile, backupStorage, job>>

NextBackup ==
    \/ \E j \in Jobs :
          \/ BackupCollect(j)
          \/ BackupArchive(j)
          \/ InitWriteDone(j)
          \/ InitReadDone(j)
          \/ AddReadDone(j)
          \/ AddWriteDone(j)
          \/ RestoreStart(j)
          \/ CopyDone(j)
          \/ CopyFail(j)
          \/ RecordReadDone(j)
          \/ RecordWriteDone(j)
    \/ \E f \in FileNameSet : DeleteFile(f)

SpecBackup == InitBackup /\ [][NextBackup]_vars

\* the bytes of a file after a later saveDatabase of its database
SavedBytes(bytes) == bytes + 100

\* XdbFile.write of a statement request renames its temporary file over f:
\* the file appears, or its content is replaced in one step
SaveFile(f) ==
    /\ IF dataRoot[f] = << >> THEN TRUE ELSE dataRoot[f][1] < 100
    /\ dataRoot' = [dataRoot EXCEPT ![f] =
                        IF @ = << >> THEN <<InitialBytes(f)>> ELSE <<SavedBytes(@[1])>>]
    /\ UNCHANGED <<selVars, sqlVars, rtVars, ioVars, cxVars, coreFile, backupStorage, job>>

\* the backup handler while statement requests save their databases
NextBackupLive ==
    \/ \E j \in Jobs :
          \/ BackupCollect(j)
          \/ BackupArchive(j)
          \/ InitWriteDone(j)
          \/ InitReadDone(j)
          \/ AddReadDone(j)
          \/ AddWriteDone(j)
    \/ \E f \in FileNameSet : SaveFile(f)

SpecBackupLive == InitBackup /\ [][NextBackupLive]_vars

----------------------------------------------------------------------------
(* SpecCipher: encrypt and decrypt of the Cipher Module on their own *)

MaxUnits == 2       \* code units of a string plaintext, bytes of a Buffer plaintext

\* UTF-16 code units of a JavaScript string: an ASCII character, a
\* character of two UTF-8 bytes, a high and a low surrogate
CodeUnits == {"a", "e_acute", "HI", "LO"}

\* bytes of a Buffer: an ASCII byte, a lead byte and its continuation byte,
\* a byte that occurs in no UTF-8 sequence
BufferBytes == {97, 195, 169, 255}

CipherSecrets == {"k1", "k2"}

SeqsUpTo(S, n) == UNION {[1..k -> S] : k \in 0..n}

Plaintexts ==
    {[type |-> "string", data |-> u] : u \in SeqsUpTo(CodeUnits, MaxUnits)}
    \cup {[type |-> "Buffer", data |-> b] : b \in SeqsUpTo(BufferBytes, MaxUnits)}

HasPrefix(seq, prefix) ==
    Len(seq) >= Len(prefix) /\ SubSeq(seq, 1, Len(prefix)) = prefix

Drop(seq, n) == SubSeq(seq, n + 1, Len(seq))

RECURSIVE Utf8Encode(_)
\* the UTF-8 bytes of a string: a surrogate pair is one character of four
\* bytes, a surrogate without its partner is written as U+FFFD
Utf8Encode(units) ==
    IF units = << >> THEN << >>
    ELSE IF units[1] = "a" THEN <<97>> \o Utf8Encode(Tail(units))
    ELSE IF units[1] = "e_acute" THEN <<195, 169>> \o Utf8Encode(Tail(units))
    ELSE IF units[1] = "FFFD" THEN <<239, 191, 189>> \o Utf8Encode(Tail(units))
    ELSE IF HasPrefix(units, <<"HI", "LO">>)
    THEN <<240, 159, 152, 128>> \o Utf8Encode(Drop(units, 2))
    ELSE <<239, 191, 189>> \o Utf8Encode(Tail(units))

RECURSIVE Utf8Decode(_)
\* the string read from UTF-8 bytes: a byte that starts no complete sequence
\* is read as U+FFFD
Utf8Decode(bytes) ==
    IF bytes = << >> THEN << >>
    ELSE IF bytes[1] = 97 THEN <<"a">> \o Utf8Decode(Tail(bytes))
    ELSE IF HasPrefix(bytes, <<195, 169>>) THEN <<"e_acute">> \o Utf8Decode(Drop(bytes, 2))
    ELSE IF HasPrefix(bytes, <<239, 191, 189>>) THEN <<"FFFD">> \o Utf8Decode(Drop(bytes, 3))
    ELSE IF HasPrefix(bytes, <<240, 159, 152, 128>>)
    THEN <<"HI", "LO">> \o Utf8Decode(Drop(bytes, 4))
    ELSE <<"FFFD">> \o Utf8Decode(Tail(bytes))

\* what encrypt hands to cipher.update with input encoding utf-8: the
\* string itself, or plaintext.toString() of a Buffer
cipherInput(plaintext) ==
    Utf8Encode(IF plaintext.type = "string" THEN plaintext.data
               ELSE Utf8Decode(plaintext.data))

\* what decrypt returns from decipher.update and final with output
\* encoding utf-8
decipherOutput(bytes) == [type |-> "string", data |-> Utf8Decode(bytes)]

InitCipher ==
    /\ tables = [t \in {"users"} |-> [columns |-> UsersColumns, data |-> << >>]]
    /\ result = NoOutcome
    /\ RoundTripIdle
    /\ IoIdle
    /\ BackupIdle
    /\ SelectIdle
    /\ cipher \in {[NoCipher EXCEPT !.pc = "ready", !.plaintext = <<m>>, !.encryptionKey = k] :
                      m \in Plaintexts, k \in CipherSecrets}

\* encrypt(plaintext, encryptionKey)
EncryptCall ==
    /\ cipher.pc = "ready"
    /\ \E salt \in Salts, nonce \in Nonces :
          cipher' = [cipher EXCEPT
                        !.pc = "encrypted",
                        !.encryptedData = <<encrypt(cipherInput(cipher.plaintext[1]),
                                                    cipher.encryptionKey, salt, nonce)>>]
    /\ UNCHANGED <<selVars, sqlVars, rtVars, ioVars, bkVars>>

\* decrypt(encryptedData, encryptionKey) under some secret
DecryptCall ==
    /\ cipher.pc = "encrypted"
    /\ \E k \in CipherSecrets :
          cipher' = IF TagVerifies(cipher.encryptedData[1], k)
                    THEN [cipher EXCEPT
                             !.pc = "decrypted", !.decryptionKey = k, !.outcome = "returned",
                             !.returned = <<decipherOutput(decrypt(cipher.encryptedData[1], k))>>]
                    ELSE [cipher EXCEPT
                             !.pc = "decrypted", !.decryptionKey = k,
                             !.outcome = "Decryption failed"]
    /\ UNCHANGED <<selVars, sqlVars, rtVars, ioVars, bkVars>>

NextCipher == EncryptCall \/ DecryptCall

SpecCipher == InitCipher /\ [][NextCipher]_vars

----------------------------------------------------------------------------
(* Properties of the statement engine *)

\* two rows agree on every primary-key column (=== on each)
PkAgree(columns, r1, r2) ==
    \A pk \in PrimaryKeyColumns(columns) : StrictEq(Get(r1, pk), Get(r2, pk))

HasPrimaryKey(t) == PrimaryKeyColumns(tables[t].columns) # {}

\* the value an INSERT statement gives column c: that of the last
\* occurrence of c in its column list, undefined when c is not listed
InsertedValue(columns, stmt, c) ==
    LET occ == {i \in DOMAIN stmt.columnNames : stmt.columnNames[i] = c}
    IN IF occ = {} THEN Undefined
       ELSE coerceValue(stmt.values[CHOOSE i \in occ : \A j \in occ : j <= i],
                        FindColumn(columns, c).type)

\* a statement INSERT that passes every check before the primary-key check
InsertIsValid(stmt) ==
    /\ stmt.wellFormed
    /\ stmt.table \in DOMAIN tables
    /\ Len(stmt.columnNames) = Len(stmt.values)
    /\ \A i \in DOMAIN stmt.columnNames :
          stmt.columnNames[i] \in ColumnNames(tables[stmt.table].columns)

\* the primary-key values of the statement equal those of an existing row
InsertRepeatsKey(stmt) ==
    /\ InsertIsValid(stmt)
    /\ HasPrimaryKey(stmt.table)
    /\ \E i \in DOMAIN tables[stmt.table].data :
          \A pk \in PrimaryKeyColumns(tables[stmt.table].columns) :
             StrictEq(Get(tables[stmt.table].data[i], pk),
                      InsertedValue(tables[stmt.table].columns, stmt, pk))

C2_KeysUniqueUnderAllStatements ==
    \A t \in DOMAIN tables :
       \A i \in DOMAIN tables[t].data : \A j \in DOMAIN tables[t].data :
          (i # j /\ HasPrimaryKey(t)) =>
             \E pk \in PrimaryKeyColumns(tables[t].columns) :
                ~StrictEq(Get(tables[t].data[i], pk), Get(tables[t].data[j], pk))

\* the columns of table t declared NOT NULL or PRIMARY KEY
RequiredColumns(t) ==
    {tables[t].columns[i].name :
        i \in {j \in DOMAIN tables[t].columns :
                  tables[t].columns[j].notNull \/ tables[t].columns[j].primaryKey}}

\* C3: after an INSERT or UPDATE statement completes, no row holds null or
\* lacks a value in a column declared NOT NULL or PRIMARY KEY.
C3_NoNullInRequiredColumns ==
    (result.op \in {"INSERT", "UPDATE"} /\ result.status = "ok") =>
       \A t \in DOMAIN tables : \A i \in DOMAIN tables[t].data :
          \A c \in RequiredColumns(t) : Get(tables[t].data[i], c) \notin {Null, Undefined}

\* C8: a statement that fails with an error leaves every table's row
\* sequence and every row's values as they were before the call.
C8_FailedStatementChangesNothing ==
    [][result'.status # "ok" => tables' = tables]_vars

\* an UPDATE statement names a column its table does not have
UpdateNamesUnknownColumn(stmt) ==
    /\ stmt.wellFormed
    /\ stmt.table \in DOMAIN tables
    /\ \E i \in DOMAIN stmt.setAssignments :
          stmt.setAssignments[i].column \notin ColumnNames(tables[stmt.table].columns)

\* an INSERT statement names a column its table does not have
InsertNamesUnknownColumn(stmt) ==
    /\ stmt.wellFormed
    /\ stmt.table \in DOMAIN tables
    /\ \E i \in DOMAIN stmt.columnNames :
          stmt.columnNames[i] \notin ColumnNames(tables[stmt.table].columns)

SchemaErrors == {"no_table", "no_column", "count_mismatch"}

\* C9: a statement that names a table or a column that does not exist
\* (an INSERT column list or an UPDATE SET assignment naming an unknown
\* column) fails with a schema error and mutates no row.
C9_UnknownNameFails ==
    /\ \A stmt \in InsertStmts :
          ((stmt.wellFormed /\ stmt.table \notin DOMAIN tables)
              \/ InsertNamesUnknownColumn(stmt)) =>
             LET r == executeInsert(tables, stmt)
             IN r.out.status \in SchemaErrors /\ r.tables = tables
    /\ \A stmt \in UpdateStmts :
          ((stmt.wellFormed /\ stmt.table \notin DOMAIN tables)
              \/ UpdateNamesUnknownColumn(stmt)) =>
             LET r == executeUpdate(tables, stmt)
             IN r.out.status \in SchemaErrors /\ r.tables = tables
    /\ \A stmt \in DeleteStmts :
          (stmt.wellFormed /\ stmt.table \notin DOMAIN tables) =>
             LET r == executeDelete(tables, stmt)
             IN r.out.status \in SchemaErrors /\ r.tables = tables

\* C5: after saveDatabase succeeds, loading the written file into an empty
\* engine yields the state the file was written from: the same tables,
\* column definitions, row sequences and row values.
C5_FileRoundTrips == phase = "loaded" => loaded = tables

----------------------------------------------------------------------------
(* Properties of the file store and the request handlers *)

\* the positions of a request inside XdbFile.write
WritePcs == {"encrypting", "writingTmp", "renaming", "cleanup"}

C6_OneWritePerFile ==
    \A d \in DbNames :
        Cardinality({r \in Reqs : req[r].db = d /\ req[r].pc \in WritePcs}) <= 1

\* every request that arrived is a statement request and has returned
OnlyStatementsAllReturned ==
    /\ \A r \in Reqs : req[r].pc \in {"idle", "done"}
    /\ \A r \in Reqs : req[r].pc = "done" => req[r].kind = "POST"

\* C7: when statement requests against the same database overlap, a
\* mutation whose request returned success is present in the file after
\* the requests finish.
C7_AcknowledgedMutationIsOnDisk ==
    OnlyStatementsAllReturned =>
       \A r \in Reqs :
          (req[r].pc = "done" /\ req[r].outcome = "ok") =>
             /\ disk[req[r].db] # << >>
             /\ TagVerifies(disk[req[r].db][1], EncryptionKey)
             /\ r \in decrypt(disk[req[r].db][1], EncryptionKey)[req[r].db].rows

\* the step in which request r ran saveDatabase up to its size check
SaveStep(r) ==
    /\ req[r].pc \in {"idle", "exists", "reading", "decrypting"}
    /\ req'[r].pc \in {"encrypting", "done"}
    /\ req'[r].outcome \in {"none", "size_limit", "write_in_progress"}

\* C10: saveDatabase refuses the write when the serialized form exceeds
\* the maximum: the request fails, no file is written and no write starts;
\* when the serialized form is within the maximum, XdbFile.write is called.
C10_OversizeSaveRefused ==
    [][\A r \in Reqs :
          SaveStep(r) =>
             IF SerializedSize(exportToJson(databases')) > MaxDatabaseSize
             THEN /\ req'[r].pc = "done"
                  /\ req'[r].outcome = "size_limit"
                  /\ disk' = disk /\ tmp' = tmp /\ wip' = wip
             ELSE \/ req'[r].pc = "encrypting" /\ req'[r].inst \in wip'
                  \/ req'[r].outcome = "write_in_progress"]_vars

\* a save was refused for its size while the database file exists
C10_Witness ==
    \E r \in Reqs :
        /\ req[r].outcome = "size_limit"
        /\ disk[req[r].db] # << >>

\* C11: XdbFile.read returns the empty document only when the file is
\* absent; when the file exists and its tag does not verify, read raises
\* an error and loadDatabase propagates it, the engine's databases being
\* left as they were (the database is not loaded as empty).
C11_UndecryptableFileIsAnError ==
    [][\A r \in Reqs :
          /\ (req[r].pc = "reading" /\ req'[r] # req[r] /\ disk[req[r].db] # << >>)
                => /\ req'[r].pc = "decrypting"
                   /\ req'[r].data = disk[req[r].db]
                   /\ databases' = databases
          /\ (req[r].pc = "decrypting" /\ req'[r] # req[r]
                 /\ ~TagVerifies(req[r].data[1], EncryptionKey))
                => /\ req'[r].pc = "done"
                   /\ req'[r].outcome = "read_failed"
                   /\ databases' = databases]_vars

\* a request found a file it could not decrypt and failed, nothing loaded
C11_Witness ==
    \E r \in Reqs :
        /\ req[r].pc = "done"
        /\ req[r].outcome = "read_failed"
        /\ disk[req[r].db] # << >>
        /\ ~databases[req[r].db].present

\* the rows of data the statement's predicate selects: all of them when
\* there is no WHERE
MatchedRows(data, whereClause) ==
    {i \in DOMAIN data : whereClause = NoWhere \/ evaluateWhere(data[i], whereClause) = "T"}

\* the value the last assignment to column c gives a row
AssignedValue(columns, setAssignments, c) ==
    LET last == CHOOSE k \in DOMAIN setAssignments :
                    /\ setAssignments[k].column = c
                    /\ \A m \in DOMAIN setAssignments :
                          setAssignments[m].column = c => m <= k
    IN coerceValue(setAssignments[last].value, FindColumn(columns, c).type)

\* C19: an UPDATE that completes gives every row matching its predicate
\* (every row when there is no WHERE) the assigned value in each assigned
\* column of the table, leaves the other columns of those rows, the other
\* rows, their order and the other tables as they were, and returns the
\* number of matching rows, however many assignments it has.
C19_UpdateChangesTheMatchedRows ==
    \A stmt \in UpdateStmts :
        LET r == executeUpdate(tables, stmt)
        IN r.out.status = "ok" =>
              LET columns == tables[stmt.table].columns
                  old     == tables[stmt.table].data
                  new     == r.tables[stmt.table].data
                  matched == MatchedRows(old, stmt.whereClause)
                  assigned == {stmt.setAssignments[k].column : k \in DOMAIN stmt.setAssignments}
              IN /\ r.out.rowsAffected = Cardinality(matched)
                 /\ Len(new) = Len(old)
                 /\ \A t \in DOMAIN tables \ {stmt.table} : r.tables[t] = tables[t]
                 /\ r.tables[stmt.table].columns = columns
                 /\ \A i \in DOMAIN old :
                       IF i \in matched
                       THEN /\ DOMAIN new[i] = DOMAIN old[i]
                            /\ \A c \in ColumnNames(columns) :
                                  Get(new[i], c)
                                     = IF c \in assigned
                                       THEN AssignedValue(columns, stmt.setAssignments, c)
                                       ELSE Get(old[i], c)
                       ELSE new[i] = old[i]

\* an UPDATE completed, and in the table of two rows it left an UPDATE of
\* two assignments whose predicate matches one row returns 1
C19_Witness ==
    /\ result.op = "UPDATE" /\ result.status = "ok" /\ result.rowsAffected = 1
    /\ Len(tables["users"].data) = 2
    /\ \E stmt \in UpdateStmts :
          /\ stmt.table = "users" /\ stmt.wellFormed
          /\ Len(stmt.setAssignments) = 2
          /\ Cardinality(MatchedRows(tables["users"].data, stmt.whereClause)) = 1
          /\ executeUpdate(tables, stmt).out = Outcome("UPDATE", "ok", 1)

\* C20: a DELETE that completes leaves exactly the rows that did not match
\* its predicate, in their original order (no row when there is no WHERE),
\* leaves the other tables as they were, and returns the number of rows
\* that matched.
C20_DeleteKeepsTheOtherRows ==
    \A stmt \in DeleteStmts :
        LET r == executeDelete(tables, stmt)
        IN r.out.status = "ok" =>
              LET old     == tables[stmt.table].data
                  new     == r.tables[stmt.table].data
                  matched == MatchedRows(old, stmt.whereClause)
                  kept    == DOMAIN old \ matched
              IN /\ r.out.rowsAffected = Cardinality(matched)
                 /\ Len(new) = Cardinality(kept)
                 /\ \A i \in kept :
                       new[Cardinality({j \in kept : j <= i})] = old[i]
                 /\ \A t \in DOMAIN tables \ {stmt.table} : r.tables[t] = tables[t]
                 /\ r.tables[stmt.table].columns = tables[stmt.table].columns

\* a DELETE removed one row of a table and left another
C20_Witness ==
    /\ result.op = "DELETE" /\ result.status = "ok" /\ result.rowsAffected = 1
    /\ Len(tables["users"].data) = 1

----------------------------------------------------------------------------
(* Properties of SELECT.  An INSERT clears `selected`, so while it holds a *)
(* SELECT the table is the one the SELECT read.                            *)

\* every condition of the clause is one evaluateCondition can decompose
AllValid(whereClause) ==
    \A i \in DOMAIN whereClause : \A j \in DOMAIN whereClause[i] : whereClause[i][j].valid

\* at least one OR-branch has all of its AND-conditions true for the row
Satisfies(row, whereClause) ==
    \E i \in DOMAIN whereClause :
        \A j \in DOMAIN whereClause[i] : evaluateCondition(row, whereClause[i][j]) = "T"

Reverse(seq) == [i \in DOMAIN seq |-> seq[Len(seq) + 1 - i]]

\* the clause with the AND-conditions of every branch written in reverse
AndsReversed(whereClause) == [i \in DOMAIN whereClause |-> Reverse(whereClause[i])]

\* the last statement was SELECT * FROM users WHERE ..., without ORDER BY or LIMIT
SelectedWithWhere ==
    /\ selected.status # "none"
    /\ selected.stmt.wellFormed
    /\ selected.stmt.table \in DOMAIN tables
    /\ selected.stmt.selectClause = Star
    /\ selected.stmt.whereClause # NoWhere
    /\ selected.stmt.orderByClause = NoOrderBy
    /\ selected.stmt.limitClause = NoLimit

\* C21: a row satisfies a WHERE clause exactly when at least one OR-branch
\* has all of its AND-conditions true for it; SELECT with the clause returns
\* exactly the satisfying rows, in table order, and returns the same rows
\* when the AND-conditions of every branch are written in the other order.
C21_SelectReturnsTheSatisfyingRows ==
    (SelectedWithWhere /\ AllValid(selected.stmt.whereClause)) =>
        LET data == tables[selected.stmt.table].data
            whereClause == selected.stmt.whereClause
        IN /\ selected.status = "ok"
           /\ \A i \in DOMAIN data :
                 (evaluateWhere(data[i], whereClause) = "T") <=> Satisfies(data[i], whereClause)
           /\ selected.rows = SelectSeq(data, LAMBDA row : Satisfies(row, whereClause))
           /\ selected.rows =
                 executeSelect(tables,
                     [selected.stmt EXCEPT !.whereClause = AndsReversed(whereClause)]).rows

\* a clause of two branches, one of them with two conditions, that some
\* rows of a full table satisfy and others do not
C21_Witness ==
    /\ SelectedWithWhere
    /\ AllValid(selected.stmt.whereClause)
    /\ Len(selected.stmt.whereClause) = 2
    /\ Len(selected.stmt.whereClause[1]) = 2
    /\ Len(tables["users"].data) = MaxSelectRows
    /\ Len(selected.rows) = 2
    /\ \E i \in DOMAIN selected.rows :
          evaluateCondition(selected.rows[i], selected.stmt.whereClause[2][1]) = "F"
    /\ \E i \in DOMAIN selected.rows :
          evaluateCondition(selected.rows[i], selected.stmt.whereClause[2][1]) = "T"

\* WHERE col IS NULL and WHERE col IS NOT NULL
IsNullClause(col) == << <<ParsedCond(col, "IS", "NULL")>> >>
IsNotNullClause(col) == << <<ParsedCond(col, "IS", "NOT NULL")>> >>

\* C22: col IS NULL is true for exactly the rows whose value of col is
\* null, and col IS NOT NULL for exactly the rows whose value is not null.
C22_IsNullSelectsTheNullRows ==
    SelectedWithWhere =>
        LET data == tables[selected.stmt.table].data
        IN /\ selected.stmt.whereClause = IsNullClause("name") =>
                 selected.rows = SelectSeq(data, LAMBDA row : Get(row, "name") = Null)
           /\ selected.stmt.whereClause = IsNotNullClause("name") =>
                 selected.rows = SelectSeq(data, LAMBDA row : Get(row, "name") # Null)

\* the last statement was SELECT * FROM users [WHERE ...] ORDER BY ...,
\* without LIMIT, and it returned rows
SelectedWithOrderBy ==
    /\ selected.status = "ok"
    /\ selected.stmt.selectClause = Star
    /\ selected.stmt.orderByClause # NoOrderBy
    /\ selected.stmt.limitClause = NoLimit

\* the rows of the table the statement's WHERE clause keeps, in table order
FilteredRows ==
    IF selected.stmt.whereClause = NoWhere
    THEN tables[selected.stmt.table].data
    ELSE SelectSeq(tables[selected.stmt.table].data,
                   LAMBDA row : Satisfies(row, selected.stmt.whereClause))

IsPermutationOf(s, t) ==
    /\ Len(s) = Len(t)
    /\ \E p \in [DOMAIN s -> DOMAIN s] :
          /\ \A i, j \in DOMAIN s : p[i] = p[j] => i = j
          /\ \A i \in DOMAIN s : s[i] = t[p[i]]

\* the two rows have non-null, different values for the key
Differ(a, b, part) ==
    /\ Get(a, part.column) # Null
    /\ Get(b, part.column) # Null
    /\ JsCompare(Get(a, part.column), Get(b, part.column)) \in {"lt", "gt"}

\* a comes before b in the direction the key asks for
InDirection(a, b, part) ==
    JsCompare(Get(a, part.column), Get(b, part.column)) = (IF part.isDesc THEN "gt" ELSE "lt")

\* position of the row in the sequence (the rows of a table with a primary
\* key are distinct)
PositionIn(seq, row) == CHOOSE i \in DOMAIN seq : seq[i] = row

\* the rows returned are a permutation of the filtered rows in which any two
\* rows stand in the direction of the first key on which they differ, and
\* in their original order when they differ on no key
SortedAsRequested ==
    SelectedWithOrderBy =>
        LET parts == selected.stmt.orderByClause
            rows  == selected.rows
        IN /\ IsPermutationOf(rows, FilteredRows)
           /\ \A i, j \in DOMAIN rows :
                 i < j =>
                    IF \E k \in DOMAIN parts : Differ(rows[i], rows[j], parts[k])
                    THEN LET k == CHOOSE h \in DOMAIN parts :
                                     /\ Differ(rows[i], rows[j], parts[h])
                                     /\ \A g \in 1..(h - 1) : ~Differ(rows[i], rows[j], parts[g])
                         IN InDirection(rows[i], rows[j], parts[k])
                    ELSE PositionIn(FilteredRows, rows[i]) < PositionIn(FilteredRows, rows[j])

\* C24: SELECT ... ORDER BY returns a permutation of the filtered rows as a
\* stable multi-key sort produces it: two rows with non-null, different
\* values for a key stand in the requested direction of the first key on
\* which they differ, rows that tie on every key (a null on either side is
\* a tie) keep their original order, and the stored rows are not reordered.
C24_OrderByIsAStableSort ==
    [][(selected' # NoSelection) => (tables' = tables /\ SortedAsRequested')]_vars

----------------------------------------------------------------------------
(* Properties of CREATE TABLE *)

\* the table was created with a table-level clause PRIMARY KEY (a, b)
CompositeKeyOf(t) ==
    LET defs == created[t].defs
    IN IF \E i \in DOMAIN defs : defs[i].kind = "primaryKey" /\ Len(defs[i].columns) > 1
       THEN defs[CHOOSE i \in DOMAIN defs :
                    defs[i].kind = "primaryKey" /\ Len(defs[i].columns) > 1].columns
       ELSE << >>

AgreeOn(r1, r2, key) == \A i \in DOMAIN key : StrictEq(Get(r1, key[i]), Get(r2, key[i]))

\* C23: a composite primary key is enforced: for a table created with a
\* table-level PRIMARY KEY (a, b) clause the derived primary key is the
\* column list (a, b), an INSERT whose values for a and b both equal those
\* of an existing row is rejected with a constraint violation, and an INSERT
\* of a row that differs from every existing row in a or in b is accepted.
C23_CompositeKeyIsEnforced ==
    [][\A t \in DOMAIN tables' :
          CompositeKeyOf(t)' # << >> =>
             /\ tables'[t].primaryKey = CompositeKeyOf(t)'
             /\ \A stmt \in ItemInsertStmts :
                   (/\ t \in DOMAIN tables
                    /\ stmt.table = t
                    /\ tables' = executeInsert(tables, stmt).tables
                    /\ result' = executeInsert(tables, stmt).out) =>
                      LET newRow == BuildRow(tables[t].columns, stmt.columnNames,
                                             stmt.values, 1, EmptyRow(tables[t].columns)).row
                      IN (result'.status = "pk_violation") <=>
                            \E i \in DOMAIN tables[t].data :
                                AgreeOn(tables[t].data[i], newRow, CompositeKeyOf(t))]_vars

----------------------------------------------------------------------------
(* Properties of the registry of resident databases *)

\* request r takes the step in which its loadDatabase returns
LoadReturns(r) == req[r].pc = "decrypting" /\ req'[r] # req[r]

\* request r takes the step in which its handler calls createDatabase
CreateDatabaseCalled(r, d) ==
    /\ req[r].pc = "exists"
    /\ req[r].kind = "PUT"
    /\ req[r].db = d
    /\ req'[r] # req[r]

\* C25: loadDatabase(A) changes only A in the registry of resident
\* databases: every other resident database keeps the state it has in
\* memory, also when A's file holds a copy of it written by an earlier
\* saveDatabase(A).
C25_LoadChangesOnlyItsDatabase ==
    [][\A r \in Reqs :
          LoadReturns(r) =>
             \A d \in DbNames \ {req[r].db} :
                 databases[d].present => databases'[d] = databases[d]]_vars

\* C26: a deleted database (removed from the engine, its file unlinked) is
\* not resident again unless createDatabase is called for it, also after a
\* restart and the lazy load of the files of other databases.
C26_DeletedDatabaseStaysDeleted ==
    [][\A d \in deleted :
          (/\ ~databases[d].present
           /\ \A r \in Reqs : req[r].db = d => req[r].pc \in {"idle", "done"}
           /\ databases'[d].present) =>
              \E r \in Reqs : CreateDatabaseCalled(r, d)]_vars

----------------------------------------------------------------------------
(* Properties of backup and restore *)

Quiescent == \A j \in Jobs : job[j].pc \in {"idle", "done"}

RegistryBackups == IF coreFile = << >> THEN << >> ELSE loadSystemCore(coreFile[1]).backups

RegistryRestorations ==
    IF coreFile = << >> THEN << >> ELSE loadSystemCore(coreFile[1]).restorations

Range(seq) == {seq[i] : i \in DOMAIN seq}

\* the last n elements of seq, all of it when it has fewer
LastN(seq, n) == IF Len(seq) <= n THEN seq ELSE SubSeq(seq, Len(seq) - n + 1, Len(seq))

\* C12: the registry on disk never holds more than maxBackups backup
\* records, and the list addBackupToCore saves is the list it loaded followed
\* by the new record, cut down to its most recent maxBackups records in the
\* order they were added: an eviction removes the earliest-added record.
C12_RegistryKeepsTheMostRecent ==
    [][/\ Len(RegistryBackups') <= MaxBackups
       /\ \A j \in Jobs :
             (job[j].pc = "addReading" /\ job'[j].pc = "addWriting") =>
                 job'[j].core[1].backups
                    = LastN(Append(RegistryBackups, job[j].backupId), MaxBackups)
       /\ \A j \in Jobs :
             (job[j].pc = "addWriting" /\ job'[j].pc = "done") =>
                 RegistryBackups' = job[j].core[1].backups]_vars

\* three backups were created one after the other with maxBackups = 2: the
\* first record was evicted
C12_Witness ==
    /\ Quiescent
    /\ \A j \in Jobs : job[j].kind = "BACKUP" /\ job[j].response = "created"
    /\ RegistryBackups = <<2, 3>>

\* the requests served so far were all createBackup calls and the registry
\* holds the most recent of their records, as calls made one after the
\* other leave it
AfterBackupsOnly ==
    LET made == {j \in Jobs : job[j].pc = "done"}
    IN /\ Quiescent
       /\ \A j \in made : job[j].kind = "BACKUP"
       /\ RegistryBackups = LastN([i \in 1..Cardinality(made) |-> i], MaxBackups)

\* C13: after a sequence of createBackup calls, every archive in backup
\* storage belongs to a backup whose record the registry holds: an evicted
\* record's archive is removed with it.
C13_EveryArchiveHasARecord ==
    AfterBackupsOnly => \A p \in backupStorage : p.backupId \in Range(RegistryBackups)

RestoreEnded(j) == job[j].kind = "RESTORE" /\ job[j].status # "none"

\* C14: a restore of a package listing at least one file has status success
\* exactly when no file failed, failed exactly when no file was restored, and
\* partial exactly when some file was restored and some file failed; with
\* two listed files of which one has altered bytes and no copy failing, the
\* status is partial, the altered file is in the failure list with the
\* checksum-mismatch reason and the other file was restored.
C14_StatusReflectsTheCounts ==
    \A j \in Jobs :
        (RestoreEnded(j) /\ job[j].overview # << >>) =>
            /\ job[j].status = "success" <=> Len(job[j].failures) = 0
            /\ job[j].status = "failed" <=> job[j].restoredCount = 0
            /\ job[j].status = "partial"
                  <=> (job[j].restoredCount > 0 /\ Len(job[j].failures) > 0)
            /\ \A f, g \in FileNameSet :
                  LET p == job[j].package[1]
                  IN ( /\ f # g
                       /\ Listed(OverviewOf(p)) = {f, g}
                       /\ p.files[f] # << >> /\ p.files[g] # << >>
                       /\ job[j].failures = <<Failure(f, "Checksum mismatch")>> )
                     => job[j].status = "partial" /\ job[j].restoredCount = 1

\* the manifest hash of the listed file f
ManifestHash(p, f) ==
    OverviewOf(p)[CHOOSE i \in DOMAIN OverviewOf(p) : OverviewOf(p)[i].filename = f].checksum

\* f is present in the extracted archive with the hash the manifest gives
PassesValidation(p, f) ==
    /\ p.files[f] # << >>
    /\ generateSha256(p.files[f][1]) = ManifestHash(p, f)

\* the reason the handler gives for rejecting f
RejectionOf(p, f) ==
    Failure(f, IF p.files[f] = << >> THEN "File not found in archive" ELSE "Checksum mismatch")

CopyFailures(failures) ==
    SelectSeq(failures, LAMBDA x : x.reason = "Failed to restore")

C16_EveryAttemptIsRecorded ==
    [][\A j \in Jobs :
          (job[j].pc # "done" /\ job'[j].pc = "done" /\ RestoreEnded(j)') =>
              /\ job'[j].response = "report"
              /\ RegistryRestorations' # << >>
              /\ RegistryRestorations'[Len(RegistryRestorations')]
                    = [backupId |-> job'[j].backupId, status |-> job'[j].status,
                       failureLog |-> job'[j].failures]]_vars

\* C17: when a package produced by createBackup is restored with no other
\* request changing the data root and no copy failing, then at the end of
\* the restore every file the backup listed is in the data root with the
\* bytes it had when it was backed up, whether or not it was deleted in
\* between.
C17_BackupThenRestoreRoundTrips ==
    [][\A b, r \in Jobs :
          ( /\ b < r
            /\ \A o \in Jobs \ {b, r} : job[o].pc = "idle"
            /\ job[b].kind = "BACKUP"
            /\ ~RestoreEnded(r) /\ RestoreEnded(r)'
            /\ job'[r].package[1] \in backupStorage
            /\ job'[r].package[1].backupId = job[b].backupId
            /\ CopyFailures(job'[r].failures) = << >> )
          => /\ job'[r].status = "success"
             /\ job'[r].restoredCount = Len(job[b].overview)
             /\ \A i \in DOMAIN job[b].overview :
                   LET f == job[b].overview[i].filename
                   IN /\ dataRoot'[f] # << >>
                      /\ generateSha256(dataRoot'[f][1]) = job[b].overview[i].checksum]_vars

\* A.xdb and B.xdb were backed up and are both gone from the data root when
\* the restore of the produced package starts: after its first copy A.xdb is
\* back with the archived bytes, B.xdb is still to be copied
C17_Witness ==
    \E b, r \in Jobs :
        /\ job[b].kind = "BACKUP" /\ job[b].response = "created"
        /\ Listed(job[b].overview) = FileNameSet
        /\ job[r].kind = "RESTORE" /\ job[r].pc = "copying"
        /\ job[r].package[1] \in backupStorage
        /\ job[r].backupId = job[b].backupId
        /\ job[r].filesToRestore = FileNames
        /\ job[r].idx = 2 /\ job[r].restoredCount = 1
        /\ dataRoot["A.xdb"] = <<InitialBytes("A.xdb")>>
        /\ dataRoot["B.xdb"] = << >>

----------------------------------------------------------------------------
(* Properties of the Cipher Module *)

\* C18: decrypt of what encrypt made of the plaintext m, under the secret
\* encrypt was given, returns m, for every salt and nonce encrypt drew.
C18_DecryptReturnsThePlaintext ==
    (cipher.pc = "decrypted" /\ cipher.decryptionKey = cipher.encryptionKey) =>
        /\ cipher.outcome = "returned"
        /\ cipher.returned = cipher.plaintext

-----------------------------------------------------------------------------
(* Properties of statements whose save is refused *)

\* the answer of request r says that saveDatabase refused the write
SaveRefused(r) ==
    /\ req[r].pc = "done"
    /\ req[r].kind = "POST"
    /\ req[r].outcome \in {"size_limit", "write_in_progress"}

\* the row of request r is in database d of the document stored in file f
StoredIn(f, d, r) == f # << >> /\ r \in f[1].ciphertext.text[d].rows

\* C27: when a statement request ends with an error because saveDatabase
\* refused the write (size limit, or a write in progress on the file), its
\* row is neither in the resident database nor in any file on disk, now or
\* after later saves.
C27_RefusedStatementLeavesNoRow ==
    \A r \in Reqs :
        SaveRefused(r) =>
            /\ r \notin databases[req[r].db].rows
            /\ \A d \in DbNames : ~StoredIn(disk[d], req[r].db, r)

-----------------------------------------------------------------------------
(* Properties of a restore into the live data directory *)

\* the step executes the statement of a request on database d
StatementRuns(d) ==
    \E r \in Reqs :
        /\ req[r].kind = "NONE" \/ req[r].db = d
        /\ r \notin databases[d].rows
        /\ r \in databases'[d].rows

\* the rows of database d that were resident, their INSERT acknowledged, and
\* not in the restored file when the restore copied d's file
PreRestoreRows(d) == IF restored[d] = << >> THEN {} ELSE restored[d][1]

\* C28: after a restore copied the file of a database into the data
\* directory, a statement on that database runs on the restored content,
\* also when the database was resident before the restore, and no later
\* save puts the pre-restore rows of memory into the file.
C28_RestoredContentIsUsed ==
    [][\A d \in DbNames :
          /\ (/\ \A q \in Reqs : req[q].pc \in {"idle", "done"}
              /\ StatementRuns(d)) => databases'[d].rows \cap PreRestoreRows(d) = {}
          /\ \A r \in PreRestoreRows(d)' : ~StoredIn(disk'[d], d, r)]_vars

-----------------------------------------------------------------------------
(* Properties of a backup taken while databases are saved *)

\* the restore handler's validation accepts every file of package p
ValidatesClean(p) == Validate(p, 1, << >>, << >>).failures = << >>

\* C29: every file in an archive written by the backup handler has the
\* content whose hash the manifest records for it, also when a save renames
\* a new file over it between the checksum pass and the archive pass, so the
\* restore handler's validation of a stored archive reports no failure.
C29_ArchiveMatchesItsManifest ==
    \A p \in backupStorage :
        /\ \A f \in Listed(OverviewOf(p)) :
              /\ p.files[f] # << >>
              /\ generateSha256(p.files[f][1]) = ManifestHash(p, f)
        /\ ValidatesClean(p)

-----------------------------------------------------------------------------
(* Properties of XdbFile's write-in-progress flag *)

\* the requests inside XdbFile.write on the XdbFile instance i
WritersOf(i) == {r \in Reqs : req[r].pc \in WritePcs /\ req[r].inst = i}

\* writeInProgress of instance i is set exactly while one write is running
FlagTracksTheWrite ==
    \A i \in 1..(NumRequests + Cardinality(DbNames) + 1) :
        IF i \in wip THEN Cardinality(WritersOf(i)) = 1 ELSE WritersOf(i) = {}

\* the step in which the write of request r returns clears its flag
WriteEndClearsFlag ==
    \A r \in Reqs :
        (req[r].pc \in WritePcs /\ req'[r].pc = "done") => req[r].inst \notin wip'

\* the step in which the guard rejects the write of request r changes no
\* flag and no temporary file
RejectionTouchesNothing ==
    \A r \in Reqs :
        (req[r].pc # "done" /\ req'[r].pc = "done" /\ req'[r].outcome = "write_in_progress")
            => wip' = wip /\ tmp' = tmp

\* C30: writeInProgress of an XdbFile is set exactly while one write call
\* is between its start and its completion; every write that starts ends,
\* by success or by failure, with the flag cleared; a write rejected by the
\* guard neither clears the flag nor removes the temporary file of the
\* write in flight.
C30_FlagIsSetExactlyDuringAWrite ==
    /\ []FlagTracksTheWrite
    /\ [][WriteEndClearsFlag /\ RejectionTouchesNothing]_vars
    /\ \A r \in Reqs : (req[r].pc \in WritePcs) ~> (req[r].pc = "done")

\* a write was rejected by the guard while the write in flight on the same
\* instance has its temporary file on disk and its flag set
C30_Witness ==
    \E r, q \in Reqs :
        /\ req[r].pc = "done"
        /\ req[r].outcome = "write_in_progress"
        /\ req[q].pc = "renaming"
        /\ req[q].db = req[r].db
        /\ req[q].inst \in wip
        /\ tmp[req[q].db] # << >>

====
